---- MODULE Spec2Model ----
(***************************************************************************)
(* The read path of an sstable (sstable/reader.go): block handles, the     *)
(* checksummed block loader with its block cache, the weak-cached metadata *)
(* slots of the Reader, and the two-level Iterator over index and data     *)
(* blocks with its bounds, its bloom filter and its sticky error.          *)
(*                                                                         *)
(* A block is a sequence of entries [UserKey, SeqNum, value]; a value is a *)
(* sequence of bytes.  A cursor position inside a block (blockIter.offset) *)
(* is counted in entries: 0 is the first entry, Len(block) is the restart  *)
(* array (past the last entry), -1 is "before the first entry".            *)
(***************************************************************************)
EXTENDS Integers, Sequences, FiniteSets, Bags, TLC

\* ------------------------------------------------------------------ bounds
\* User keys are 1..MaxKey.
MaxKey == 4
\* The tables with bounds, faults, a filter or a range-del block are written
\* over the keys 1..MaxSmallKey.
MaxSmallKey == 3
\* A table has at most MaxBlocks data blocks.
MaxBlocks == 3
\* Bytes one encoded record occupies in a block's payload.
EntryLen == 3

\* ---------------------------------------------------------------- constants
\* A nil key, a nil bound, a nil weak handle.
Nil == 0
blockTrailerLen == 5
noCompressionBlockType == 0
snappyCompressionBlockType == 1

NoErr == "nil"
ErrChecksum == "pebble/table: invalid table (checksum mismatch)"
ErrCompression == "pebble/table: unknown block compression"
ErrCorruptIndex == "pebble/table: corrupt index entry"
ErrSnappy == "snappy: corrupt input"
ErrIO == "read error"
ErrBadHandle == "pebble/table: invalid table (bad filter block handle)"
ErrClosed == "pebble/table: reader is closed"
\* An error the file's Close returns.
ErrFileClose == "file close error"
\* The run-time panic of a method call on the nil file.
PanicNilFile == "panic: nil pointer dereference"
\* base.ErrNotFound.
ErrNotFound == "not found"

\* cmp(a, b) of the table's comparator on user keys: <0, 0 or >0.
Compare(a, b) == a - b

\* ------------------------------------------------- 4.A block handle codec
RECURSIVE PutUvarint(_)
\* binary.PutUvarint: base-128, least significant group first.
PutUvarint(x) ==
    IF x < 128 THEN <<x>> ELSE <<(x % 128) + 128>> \o PutUvarint(x \div 128)

RECURSIVE UvarintFrom(_, _, _, _)
\* binary.Uvarint's loop from byte i (0-based), with x the value so far and
\* s the shift of the next group: <<value, bytes read>>; the bytes read are
\* 0 when the buffer ends inside the varint and negative when the value
\* overflows 64 bits.
UvarintFrom(buf, i, x, s) ==
    IF i >= Len(buf) THEN <<0, 0>>
    ELSE LET b == buf[i + 1] IN
         IF b < 128
         THEN IF i > 9 \/ (i = 9 /\ b > 1) THEN <<0, -(i + 1)>>
              ELSE <<IF b = 0 THEN x ELSE x + b * 2^s, i + 1>>
         ELSE UvarintFrom(buf, i + 1,
                          IF b = 128 THEN x ELSE x + (b % 128) * 2^s, s + 7)

Uvarint(buf) == UvarintFrom(buf, 0, 0, 0)

ZeroBH == [Offset |-> 0, Length |-> 0]

\* decodeBlockHandle: <<handle, n, panic>>.  The slice src[n:] of a negative
\* n (the first varint overflows) is a run-time panic; the third component
\* tells it.
decodeBlockHandle(src) ==
    LET a == Uvarint(src)
        n == a[2]
    IN  IF n < 0 THEN <<ZeroBH, 0, TRUE>>
        ELSE LET c == Uvarint(SubSeq(src, n + 1, Len(src)))
                 m == c[2]
             IN  IF n = 0 \/ m = 0 THEN <<ZeroBH, 0, FALSE>>
                 ELSE <<[Offset |-> a[1], Length |-> c[1]], n + m, FALSE>>

encodeBlockHandle(b) == PutUvarint(b.Offset) \o PutUvarint(b.Length)

\* ------------------------------------------------------ on-disk blocks
Entry(k, s, v) == [UserKey |-> k, SeqNum |-> s, value |-> v]

\* A data record for user key k; its value is derived from the key.
DataEntry(k) == Entry(k, 0, <<k + 100>>)

RECURSIVE SumSeq(_)
SumSeq(s) == IF s = <<>> THEN 0 ELSE Head(s) + SumSeq(Tail(s))

RECURSIVE PayloadSum(_, _)
\* Position-weighted sum of the bytes of a payload.
PayloadSum(b, pos) ==
    IF b = <<>> THEN 0
    ELSE pos * (1 + Head(b).UserKey + 7 * Head(b).SeqNum + SumSeq(Head(b).value))
         + PayloadSum(Tail(b), pos + 1)

\* crc.New(payload || type).Value(): a checksum of the payload bytes and the
\* type byte.
Checksum(payload, typ) == (PayloadSum(payload, 1) * 4 + typ + 1) % 65536

\* Number of restart points of a block (one per block at the restart
\* interval the tables here are written with).
numRestarts(b) == 1

\* len(block): the records followed by the restart array and its count.
BlockLen(b) == EntryLen * Len(b) + 4 * (numRestarts(b) + 1)

RECURSIVE Reverse(_)
Reverse(s) == IF s = <<>> THEN <<>> ELSE Reverse(Tail(s)) \o <<Head(s)>>

SnappyMagic == 255
\* The compressed form of a payload: a header carrying the decoded length,
\* then the body in a different order than the decoded block.
SnappyEncode(b) == <<Entry(Len(b), SnappyMagic, <<>>)>> \o Reverse(b)

\* snappy.DecodedLen / snappy.Decode: <<decoded, err>>.
SnappyDecode(b) ==
    IF b = <<>> \/ b[1].SeqNum # SnappyMagic \/ b[1].UserKey # Len(b) - 1
    THEN <<(<<>>), ErrSnappy>>
    ELSE <<Reverse(Tail(b)), NoErr>>

\* The bytes at a block handle: payload, type byte, stored CRC.
\* readErr: the file fails reads at this block.
DiskBlock(payload, typ) ==
    [payload |-> payload, typ |-> typ, crc |-> Checksum(payload, typ),
     readErr |-> FALSE]

\* The bytes of a block written with compression type typ.
WriteBlock(b, typ) ==
    IF typ = snappyCompressionBlockType THEN DiskBlock(SnappyEncode(b), typ)
    ELSE DiskBlock(b, typ)

\* ------------------------------------------------------------ tables
\* Faults a block of the file can carry.
NoFault == "none"
FaultCRC == "crc"            \* the stored CRC was changed
FaultPayload == "payload"    \* a payload byte was changed
FaultTypeByte == "typebyte"  \* the type byte was changed, the CRC not
FaultUnknownType == "unknowntype" \* unknown compression type, matching CRC
FaultTrailing == "trailing"  \* index entry: bytes follow the handle
FaultTruncated == "truncated" \* index entry: the handle's varint is cut
FaultRead == "read"          \* the file read fails
BlockFaults == {FaultCRC, FaultPayload, FaultTypeByte, FaultUnknownType, FaultRead}
IndexFaults == {FaultTrailing, FaultTruncated}

\* A table is written from a labelling of the key space: "k" a stored key,
\* "s" a separator that is not a key and ends the current data block, "ks" a
\* stored key that ends its block and is its own separator, "-" unused.
Labels == {"-", "k", "s", "ks"}

RECURSIVE BlocksOf(_, _, _, _)
\* A data block of a table: its keys, the separator of its index entry and
\* the fault its bytes or its index entry carry.
Block(keys, sep) == [keys |-> keys, sep |-> sep, fault |-> NoFault]

\* The data blocks of labelling f from position p on, with cur the keys of the
\* block being filled; a block without keys marks a labelling that is no
\* table (a separator with no key before it, or keys after the last
\* separator).
BlocksOf(f, n, p, cur) ==
    IF p > n
    THEN IF cur = <<>> THEN <<>> ELSE <<Block(<<>>, Nil)>>
    ELSE CASE f[p] = "-"  -> BlocksOf(f, n, p + 1, cur)
           [] f[p] = "k"  -> BlocksOf(f, n, p + 1, Append(cur, p))
           [] f[p] = "ks" -> <<Block(Append(cur, p), p)>>
                             \o BlocksOf(f, n, p + 1, <<>>)
           [] f[p] = "s"  -> <<Block(cur, p)>>
                             \o BlocksOf(f, n, p + 1, <<>>)

\* Every table over the keys 1..n with 1..MaxBlocks non-empty data blocks,
\* keys increasing, each separator >= the last key of its block and < the
\* first key of the next block.
TablesOver(n) ==
    { BlocksOf(f, n, 1, <<>>) : f \in
        { g \in [1..n -> Labels] :
            LET t == BlocksOf(g, n, 1, <<>>)
            IN  /\ Len(t) \in 1..MaxBlocks
                /\ \A j \in 1..Len(t) : t[j].keys # <<>> } }

Tables == TablesOver(MaxKey)
SmallTables == TablesOver(MaxSmallKey)

\* The tables of ts with one data block damaged by a fault of fs.
WithFault(ts, fs) ==
    { [t EXCEPT ![j].fault = f] : <<t, j, f>> \in
        { x \in ts \X (1..MaxBlocks) \X fs : x[2] <= Len(x[1]) } }

\* The table of scenario E2: blocks [a,b] | [d,e] | [g,h] with separators
\* c, f, h, the letters a..h numbered 1..8.
E2Table == << Block(<<1, 2>>, 3), Block(<<4, 5>>, 6), Block(<<7, 8>>, 8) >>

RECURSIVE AllKeys(_)
\* The stored user keys of a table, in order.
AllKeys(t) == IF t = <<>> THEN <<>> ELSE Head(t).keys \o AllKeys(Tail(t))

\* A table's blocks hold increasing keys and its separators bound them.
WellFormed(t) ==
    /\ t # <<>>
    /\ \A j \in 1..Len(t) :
         /\ t[j].keys # <<>>
         /\ t[j].keys[Len(t[j].keys)] <= t[j].sep
         /\ j < Len(t) => t[j].sep < t[j + 1].keys[1]
    /\ LET ks == AllKeys(t) IN \A a \in 1..Len(ks) - 1 : ks[a] < ks[a + 1]

RECURSIVE MapData(_)
MapData(ks) == IF ks = <<>> THEN <<>> ELSE <<DataEntry(Head(ks))>> \o MapData(Tail(ks))

RECURSIVE DataOffset(_, _)
\* File offset of data block j: the blocks are laid out contiguously from 0,
\* each followed by its trailer.
DataOffset(t, j) ==
    IF j = 1 THEN 0
    ELSE DataOffset(t, j - 1) + BlockLen(MapData(t[j - 1].keys)) + blockTrailerLen

DataBH(t, j) ==
    [Offset |-> DataOffset(t, j), Length |-> BlockLen(MapData(t[j].keys))]

\* The on-disk block good after fault has hit it.
Damaged(good, fault) ==
    CASE fault = FaultCRC -> [good EXCEPT !.crc = (@ + 1) % 65536]
      [] fault = FaultPayload ->
            IF good.payload = <<>> THEN [good EXCEPT !.crc = (@ + 1) % 65536]
            ELSE [good EXCEPT !.payload[1].SeqNum = @ + 1]
      [] fault = FaultTypeByte -> [good EXCEPT !.typ = @ + 2]
      [] fault = FaultUnknownType -> DiskBlock(good.payload, good.typ + 2)
      [] fault = FaultRead -> [good EXCEPT !.readErr = TRUE]
      [] OTHER -> good

\* The value of the index entry of data block j.
IndexValue(t, j) ==
    LET v == encodeBlockHandle(DataBH(t, j)) IN
    CASE t[j].fault = FaultTrailing -> Append(v, 0)
      [] t[j].fault = FaultTruncated -> <<128>>
      [] OTHER -> v

\* The index block: one entry per data block, keyed by its separator.
IndexPayload(t) == [j \in 1..Len(t) |-> Entry(t[j].sep, 0, IndexValue(t, j))]

IndexOffset(t) == DataOffset(t, Len(t) + 1)

\* The filter block of a table filter holding the prefixes in ps.
RECURSIVE FilterPayload(_)
FilterPayload(ps) ==
    IF ps = {} THEN <<>>
    ELSE LET p == CHOOSE x \in ps : \A y \in ps : x <= y
         IN  <<Entry(p, 0, <<>>)>> \o FilterPayload(ps \ {p})

\* tableFilterReader.mayContain(data, prefix).
mayContain(data, prefix) == \E e \in 1..Len(data) : data[e].UserKey = prefix

\* A range tombstone [start, end) at sequence number seq, as a block entry:
\* the start key is the entry's key and the end key its value.
Tombstone(start, end, seq) == Entry(start, seq, <<end>>)

FilterOffset(t) == IndexOffset(t) + BlockLen(IndexPayload(t)) + blockTrailerLen

RangeDelOffset(t, hasFilter, filter) ==
    IF hasFilter
    THEN FilterOffset(t) + BlockLen(FilterPayload(filter)) + blockTrailerLen
    ELSE FilterOffset(t)

\* Names of the metaindex entries, numbered in the order their byte strings
\* sort.
metaFilterName == 1       \* "fullfilter." and the name of the filter policy
metaPropertiesName == 2   \* "rocksdb.properties"
metaRangeDelName == 3     \* "rocksdb.range_del"
metaRangeDelV2Name == 4   \* "rocksdb.range_del2"
\* The property "rocksdb.num.data.blocks".
propNumDataBlocks == 1
\* Length of the footer of a table in the RocksDB format.
rocksDBFooterLen == 53

\* The properties block: the number of data blocks.
PropertiesPayload(t) == <<Entry(propNumDataBlocks, 0, <<Len(t)>>)>>

PropertiesOffset(t, hasFilter, filter, rangeDel) ==
    RangeDelOffset(t, hasFilter, filter)
        + (IF rangeDel # <<>> THEN BlockLen(rangeDel) + blockTrailerLen ELSE 0)

\* The metaindex block: the handles of the filter block, the properties
\* block and the range-del block (under the v1 or the v2 name).
MetaIndexPayload(t, hasFilter, filter, rangeDel, v1) ==
    (IF hasFilter
     THEN <<Entry(metaFilterName, 0,
                  encodeBlockHandle([Offset |-> FilterOffset(t),
                                     Length |-> BlockLen(FilterPayload(filter))]))>>
     ELSE <<>>)
    \o <<Entry(metaPropertiesName, 0,
               encodeBlockHandle(
                   [Offset |-> PropertiesOffset(t, hasFilter, filter, rangeDel),
                    Length |-> BlockLen(PropertiesPayload(t))]))>>
    \o (IF rangeDel # <<>>
        THEN <<Entry(IF v1 THEN metaRangeDelName ELSE metaRangeDelV2Name, 0,
                     encodeBlockHandle(
                         [Offset |-> RangeDelOffset(t, hasFilter, filter),
                          Length |-> BlockLen(rangeDel)]))>>
        ELSE <<>>)

MetaIndexOffset(t, hasFilter, filter, rangeDel) ==
    PropertiesOffset(t, hasFilter, filter, rangeDel)
        + BlockLen(PropertiesPayload(t)) + blockTrailerLen

\* What readFooter returns for the file of table t.
Footer(t, hasFilter, filter, rangeDel, v1) ==
    LET mo == MetaIndexOffset(t, hasFilter, filter, rangeDel)
        ml == BlockLen(MetaIndexPayload(t, hasFilter, filter, rangeDel, v1))
    IN  [metaindexBH |-> [Offset |-> mo, Length |-> ml],
         indexBH |-> [Offset |-> IndexOffset(t),
                      Length |-> BlockLen(IndexPayload(t))],
         footerBH |-> [Offset |-> mo + ml + blockTrailerLen,
                       Length |-> rocksDBFooterLen]]

\* The file of table t: data blocks from offset 0, each carrying its fault,
\* then the index block, the filter block (when hasFilter, over the prefixes
\* in filter), the range-del block (when rangeDel is not empty, carrying
\* rdfault), the properties block and the metaindex block.
FileOf(t, hasFilter, filter, rangeDel, v1, rdfault) ==
    LET data == [off \in {DataOffset(t, j) : j \in 1..Len(t)} |->
                    LET j == CHOOSE x \in 1..Len(t) : DataOffset(t, x) = off
                    IN  Damaged(WriteBlock(MapData(t[j].keys), noCompressionBlockType),
                                t[j].fault)]
    IN  data @@ (IndexOffset(t) :> WriteBlock(IndexPayload(t), noCompressionBlockType))
             @@ (IF hasFilter
                 THEN FilterOffset(t) :>
                        WriteBlock(FilterPayload(filter), noCompressionBlockType)
                 ELSE <<>>)
             @@ (IF rangeDel # <<>>
                 THEN RangeDelOffset(t, hasFilter, filter) :>
                        Damaged(WriteBlock(rangeDel, noCompressionBlockType), rdfault)
                 ELSE <<>>)
             @@ (PropertiesOffset(t, hasFilter, filter, rangeDel) :>
                    WriteBlock(PropertiesPayload(t), noCompressionBlockType))
             @@ (MetaIndexOffset(t, hasFilter, filter, rangeDel) :>
                    WriteBlock(MetaIndexPayload(t, hasFilter, filter, rangeDel, v1),
                               noCompressionBlockType))

\* ------------------------------------------------------------- state
VARIABLES
    table,   \* the blocks and separators the file was written from
    file,    \* the sstable file: block offset -> on-disk block
    cache,   \* the block cache of this file: block offset -> cached payload
    reads,   \* the offsets file.ReadAt has been called at
    r,       \* the Reader
    it,      \* the Iterator
    op,      \* the last operation called, with its arguments
    ret,     \* the user key the last positioning operation returned, or Nil
    scan,    \* the keys returned since the last First (Last) while only
             \* Next (Prev) was called after it, with the scan's direction
    out,     \* what the last Reader operation handed out
    closes,  \* the number of times the file's Close has been invoked
    ci,      \* the compactionIterator's own fields
    handles, \* the strong cache handles readBlock gave to iterators and
             \* that were not released since: a bag of block offsets
    th       \* the threads inside readWeakCachedBlock, and the slot's lock

vars ==
    <<table, file, cache, reads, r, it, op, ret, scan, out, closes, ci, handles,
      th>>

\* ----------------------------------------- 4.F block iterator (cursor)
\* A blockIter before init.
ZeroBlockIter ==
    [data |-> <<>>, offset |-> 0, nextOffset |-> 0, restarts |-> 0, err |-> NoErr,
     cacheHandle |-> {}]

\* blockIter.init: the cursor is left unpositioned.
biInit(c, block) == [c EXCEPT !.data = block, !.restarts = Len(block)]

biValid(c) == c.offset >= 0 /\ c.offset < c.restarts

\* The user key of the entry the cursor is on, and what its positioning
\* operations return: Nil when the cursor is not valid.
biKey(c) == IF biValid(c) THEN c.data[c.offset + 1].UserKey ELSE Nil

biValue(c) == IF biValid(c) THEN c.data[c.offset + 1].value ELSE <<>>

biFirst(c) ==
    IF 0 < c.restarts THEN [c EXCEPT !.offset = 0, !.nextOffset = 1]
    ELSE [c EXCEPT !.offset = 0]

biLast(c) ==
    IF 0 < c.restarts
    THEN [c EXCEPT !.offset = c.restarts - 1, !.nextOffset = c.restarts]
    ELSE [c EXCEPT !.offset = 0]

biNext(c) ==
    IF c.nextOffset >= 0 /\ c.nextOffset < c.restarts
    THEN [c EXCEPT !.offset = c.nextOffset, !.nextOffset = c.nextOffset + 1]
    ELSE [c EXCEPT !.offset = c.nextOffset]

biPrev(c) ==
    IF c.offset <= 0 THEN [c EXCEPT !.offset = -1, !.nextOffset = 0]
    ELSE [c EXCEPT !.offset = c.offset - 1, !.nextOffset = c.offset]

\* The first entry with user key >= key, else past the last entry.
biSeekGE(c, key) ==
    LET ge == {e \in 1..c.restarts : Compare(c.data[e].UserKey, key) >= 0} IN
    IF ge = {}
    THEN [c EXCEPT !.offset = c.restarts, !.nextOffset = c.restarts]
    ELSE LET e == CHOOSE x \in ge : \A y \in ge : x <= y
         IN  [c EXCEPT !.offset = e - 1, !.nextOffset = e]

\* The last entry with user key < key, else before the first entry.
biSeekLT(c, key) ==
    LET lt == {e \in 1..c.restarts : Compare(c.data[e].UserKey, key) < 0} IN
    IF lt = {}
    THEN [c EXCEPT !.offset = -1, !.nextOffset = 0]
    ELSE LET e == CHOOSE x \in lt : \A y \in lt : x >= y
         IN  [c EXCEPT !.offset = e - 1, !.nextOffset = e]

invalidateLower(c) == [c EXCEPT !.offset = -1]
invalidateUpper(c) == [c EXCEPT !.offset = c.restarts]

\* ------------------------------------------------- 4.E range-del transform
\* Tombstone order of rangedel.Sort: start key, then newer sequence first.
TombstoneLess(a, b) ==
    \/ Compare(a.UserKey, b.UserKey) < 0
    \/ a.UserKey = b.UserKey /\ a.SeqNum > b.SeqNum
    \/ a.UserKey = b.UserKey /\ a.SeqNum = b.SeqNum /\ a.value[1] < b.value[1]

RECURSIVE SortTombstones(_)
SortTombstones(ts) ==
    IF ts = {} THEN <<>>
    ELSE LET m == CHOOSE x \in ts : \A y \in ts \ {x} : TombstoneLess(x, y)
         IN  <<m>> \o SortTombstones(ts \ {m})

\* rangedel.Fragmenter: the tombstones cut at every start and end key, so
\* that two fragments either cover the same span or do not overlap.
Fragments(ts) ==
    LET cuts == {t.UserKey : t \in ts} \cup {t.value[1] : t \in ts}
    IN  { Tombstone(a, b, t.SeqNum) :
            <<a, b, t>> \in
              { x \in cuts \X cuts \X ts :
                  /\ x[1] < x[2]
                  /\ ~ \E c \in cuts : x[1] < c /\ c < x[2]
                  /\ x[3].UserKey <= x[1] /\ x[2] <= x[3].value[1] } }

\* Reader.transformRangeDelV1: the v1 block's tombstones sorted, fragmented
\* and written to a new block.
transformRangeDelV1(b) ==
    SortTombstones(Fragments({b[e] : e \in 1..Len(b)}))

\* The zero Layout.
NoLayout ==
    [valid |-> FALSE, Data |-> <<>>, Index |-> <<>>, Filter |-> ZeroBH,
     RangeDel |-> ZeroBH, Properties |-> ZeroBH, MetaIndex |-> ZeroBH,
     Footer |-> ZeroBH]

\* ------------------------------------------------ operations as functions
\* An operation maps a world (the state it can touch, with the slots of its
\* results) to a world: h/herr are the block and error readBlock returns, ok
\* is loadBlock's result, ret the user key a positioning operation returns
\* and out what a Reader operation returns or writes.
World ==
    [it |-> it, cache |-> cache, reads |-> reads, r |-> r, ret |-> ret,
     scan |-> scan, out |-> out, closes |-> closes, ci |-> ci,
     handles |-> handles,
     h |-> <<>>, herr |-> NoErr, ok |-> TRUE]

\* v := ...; F(v): the statements F that follow an assignment to v.
Bind(v, F(_)) == F(v)

\* ------------------------------------------ 4.B checksummed block loader
\* readBlock that interprets the compression type before it verifies the
\* checksum.
readBlock_TypeBeforeChecksum(w, bh, transform) ==
    IF bh.Offset \in DOMAIN w.cache
    THEN [w EXCEPT !.h = w.cache[bh.Offset], !.herr = NoErr]
    ELSE IF ~w.r.file
    THEN [w EXCEPT !.h = <<>>, !.herr = PanicNilFile]
    ELSE
    Bind([w EXCEPT !.reads = @ \cup {bh.Offset}, !.h = <<>>], LAMBDA w1 :
    IF bh.Offset \notin DOMAIN file \/ file[bh.Offset].readErr
    THEN [w1 EXCEPT !.herr = ErrIO]
    ELSE
    Bind(file[bh.Offset], LAMBDA b :
    Bind(CASE b.typ = noCompressionBlockType -> <<b.payload, NoErr>>
           [] b.typ = snappyCompressionBlockType -> SnappyDecode(b.payload)
           [] OTHER -> <<(<<>>), ErrCompression>>, LAMBDA dec :
    IF dec[2] # NoErr
    THEN [w1 EXCEPT !.herr = dec[2]]
    ELSE IF b.crc # Checksum(b.payload, b.typ)
    THEN [w1 EXCEPT !.herr = ErrChecksum]
    ELSE
    Bind(IF transform THEN transformRangeDelV1(dec[1]) ELSE dec[1], LAMBDA p :
    [w1 EXCEPT !.cache = (bh.Offset :> p) @@ @, !.h = p, !.herr = NoErr]))))

\* Reader.readBlock(bh, transform); transform is TRUE for the v1 range-del
\* transform and FALSE for nil.  A Reader whose file is nil (after Close)
\* panics at file.ReadAt; the panic is the error in w.herr.
readBlock(w, bh, transform) ==
    IF bh.Offset \in DOMAIN w.cache
    THEN [w EXCEPT !.h = w.cache[bh.Offset], !.herr = NoErr]
    ELSE IF ~w.r.file
    THEN [w EXCEPT !.h = <<>>, !.herr = PanicNilFile]
    ELSE
    Bind([w EXCEPT !.reads = @ \cup {bh.Offset}, !.h = <<>>], LAMBDA w1 :
    IF bh.Offset \notin DOMAIN file \/ file[bh.Offset].readErr
    THEN [w1 EXCEPT !.herr = ErrIO]
    ELSE
    Bind(file[bh.Offset], LAMBDA b :
    IF b.crc # Checksum(b.payload, b.typ)
    THEN [w1 EXCEPT !.herr = ErrChecksum]
    ELSE
    Bind(CASE b.typ = noCompressionBlockType -> <<b.payload, NoErr>>
           [] b.typ = snappyCompressionBlockType -> SnappyDecode(b.payload)
           [] OTHER -> <<(<<>>), ErrCompression>>, LAMBDA dec :
    IF dec[2] # NoErr
    THEN [w1 EXCEPT !.herr = dec[2]]
    ELSE
    Bind(IF transform THEN transformRangeDelV1(dec[1]) ELSE dec[1], LAMBDA p :
    [w1 EXCEPT !.cache = (bh.Offset :> p) @@ @, !.h = p, !.herr = NoErr]))))

\* ------------------------------------------ 4.C weak-cached metadata block
NoHandle == [valid |-> FALSE, off |-> 0, b |-> <<>>]

\* cache.WeakHandle.Get: the payload while the entry is resident.
WeakHit(c, wh) ==
    wh.valid /\ wh.off \in DOMAIN c /\ c[wh.off] = wh.b

\* Reader.readWeakCachedBlock on slot "index", "filter" or "rangeDel".
readWeakCachedBlock(w, slot, transform) ==
    IF WeakHit(w.cache, w.r[slot].handle)
    THEN [w EXCEPT !.h = w.r[slot].handle.b, !.herr = NoErr]
    ELSE
    Bind(readBlock(w, w.r[slot].bh, transform), LAMBDA w1 :
    IF w1.herr # NoErr THEN w1
    ELSE [w1 EXCEPT !.r[slot].handle =
                        [valid |-> TRUE, off |-> w.r[slot].bh.Offset, b |-> w1.h]])

readIndex(w) == readWeakCachedBlock(w, "index", FALSE)
readFilter(w) == readWeakCachedBlock(w, "filter", FALSE)
readRangeDel(w) == readWeakCachedBlock(w, "rangeDel", w.r.rangeDelTransform)

\* ---------------------------------------------- 4.G two-level iterator
\* Iterator{}: a zeroed iterator, as the pool holds it.
ZeroIterator ==
    [lower |-> Nil, upper |-> Nil, blockLower |-> Nil, blockUpper |-> Nil,
     reader |-> FALSE, index |-> ZeroBlockIter, data |-> ZeroBlockIter,
     dataBH |-> ZeroBH, err |-> NoErr, closeHook |-> FALSE]

\* Iterator.Init.
IteratorInit(w, lower, upper) ==
    Bind([w EXCEPT !.it = [ZeroIterator EXCEPT !.lower = lower,
                                               !.upper = upper,
                                               !.reader = TRUE,
                                               !.err = w.r.err]], LAMBDA w0 :
    IF w0.it.err # NoErr THEN w0
    ELSE
    Bind(readIndex(w0), LAMBDA w1 :
    IF w1.herr # NoErr THEN [w1 EXCEPT !.it.err = w1.herr]
    ELSE [w1 EXCEPT !.it.index = biInit(@, w1.h), !.it.err = NoErr]))

\* initBounds that drops the lower bound also when it equals the first key.
initBounds_DropsEqualLower(i) ==
    IF i.lower = Nil /\ i.upper = Nil THEN i
    ELSE
    Bind(IF i.lower # Nil THEN biFirst(i.data) ELSE i.data, LAMBDA d :
    [i EXCEPT !.data = d,
              !.blockLower =
                  IF i.lower # Nil /\ biKey(d) # Nil /\ Compare(i.lower, biKey(d)) <= 0
                  THEN Nil ELSE i.lower,
              !.blockUpper =
                  IF i.upper # Nil /\ Compare(i.upper, biKey(i.index)) > 0
                  THEN Nil ELSE i.upper])

\* initBounds that drops the upper bound also when it equals the separator.
initBounds_DropsEqualUpper(i) ==
    IF i.lower = Nil /\ i.upper = Nil THEN i
    ELSE
    Bind(IF i.lower # Nil THEN biFirst(i.data) ELSE i.data, LAMBDA d :
    [i EXCEPT !.data = d,
              !.blockLower =
                  IF i.lower # Nil /\ biKey(d) # Nil /\ Compare(i.lower, biKey(d)) < 0
                  THEN Nil ELSE i.lower,
              !.blockUpper =
                  IF i.upper # Nil /\ Compare(i.upper, biKey(i.index)) >= 0
                  THEN Nil ELSE i.upper])

\* Iterator.initBounds, on the iterator alone.
initBounds(i) ==
    IF i.lower = Nil /\ i.upper = Nil THEN i
    ELSE
    Bind(IF i.lower # Nil THEN biFirst(i.data) ELSE i.data, LAMBDA d :
    [i EXCEPT !.data = d,
              !.blockLower =
                  IF i.lower # Nil /\ biKey(d) # Nil /\ Compare(i.lower, biKey(d)) < 0
                  THEN Nil ELSE i.lower,
              !.blockUpper =
                  IF i.upper # Nil /\ Compare(i.upper, biKey(i.index)) > 0
                  THEN Nil ELSE i.upper])

\* The strong handle readBlock returns for the block at offset off.
Acquire(w, off) == [w EXCEPT !.handles = @ (+) SetToBag({off})]

\* blockIter.setCacheHandle on the data cursor that installs the handle for
\* the block at offset off and forgets the handle it replaces.
setCacheHandle_NoRelease(w, off) == [w EXCEPT !.it.data.cacheHandle = {off}]

\* blockIter.setCacheHandle on the data cursor: the handle held is released
\* and the one for the block at offset off installed.
setCacheHandle(w, off) ==
    [w EXCEPT !.handles = @ (-) SetToBag(w.it.data.cacheHandle),
              !.it.data.cacheHandle = {off}]

\* blockIter.Close on the data cursor: the handle held is released; the
\* cursor's error is what Close returns.
biClose(w) ==
    [w EXCEPT !.handles = @ (-) SetToBag(w.it.data.cacheHandle),
              !.it.data.cacheHandle = {}]

\* loadBlock that installs the handle of the block it read over the one the
\* data cursor holds, which is not released.
loadBlock_DropsOldHandle(w) ==
    IF ~biValid(w.it.index)
    THEN [w EXCEPT !.it.err = w.it.index.err, !.it.data.offset = 0,
                   !.it.data.restarts = 0, !.ok = FALSE]
    ELSE
    Bind(biValue(w.it.index), LAMBDA v :
    Bind(decodeBlockHandle(v), LAMBDA d :
    Bind([w EXCEPT !.it.dataBH = d[1]], LAMBDA w1 :
    IF d[2] = 0 \/ d[2] # Len(v)
    THEN [w1 EXCEPT !.it.err = ErrCorruptIndex, !.ok = FALSE]
    ELSE
    Bind(readBlock(w1, w1.it.dataBH, FALSE), LAMBDA w2 :
    IF w2.herr # NoErr
    THEN [w2 EXCEPT !.it.err = w2.herr, !.ok = FALSE]
    ELSE
    Bind(setCacheHandle_NoRelease(Acquire(w2, w1.it.dataBH.Offset), w1.it.dataBH.Offset),
         LAMBDA w3 :
    [w3 EXCEPT !.it = initBounds([@ EXCEPT !.data = biInit(@, w2.h),
                                          !.err = NoErr]),
               !.ok = TRUE])))))

\* Iterator.loadBlock; w.ok is its result.
loadBlock(w) ==
    IF ~biValid(w.it.index)
    THEN [w EXCEPT !.it.err = w.it.index.err, !.it.data.offset = 0,
                   !.it.data.restarts = 0, !.ok = FALSE]
    ELSE
    Bind(biValue(w.it.index), LAMBDA v :
    Bind(decodeBlockHandle(v), LAMBDA d :
    Bind([w EXCEPT !.it.dataBH = d[1]], LAMBDA w1 :
    IF d[2] = 0 \/ d[2] # Len(v)
    THEN [w1 EXCEPT !.it.err = ErrCorruptIndex, !.ok = FALSE]
    ELSE
    Bind(readBlock(w1, w1.it.dataBH, FALSE), LAMBDA w2 :
    IF w2.herr # NoErr
    THEN [w2 EXCEPT !.it.err = w2.herr, !.ok = FALSE]
    ELSE
    Bind(setCacheHandle(Acquire(w2, w1.it.dataBH.Offset), w1.it.dataBH.Offset),
         LAMBDA w3 :
    [w3 EXCEPT !.it = initBounds([@ EXCEPT !.data = biInit(@, w2.h),
                                          !.err = NoErr]),
               !.ok = TRUE])))))

\* The upper-bound check that ends SeekGE, SeekPrefixGE, First and Next on
\* the key the data cursor is on.
checkUpper(w) ==
    IF w.it.blockUpper # Nil /\ Compare(biKey(w.it.data), w.it.blockUpper) >= 0
    THEN [w EXCEPT !.it.data = invalidateUpper(@), !.ret = Nil]
    ELSE [w EXCEPT !.ret = biKey(w.it.data)]

\* The lower-bound check that ends SeekLT, Last and Prev.
checkLower(w) ==
    IF w.it.blockLower # Nil /\ Compare(biKey(w.it.data), w.it.blockLower) < 0
    THEN [w EXCEPT !.it.data = invalidateLower(@), !.ret = Nil]
    ELSE [w EXCEPT !.ret = biKey(w.it.data)]

RetNil(w) == [w EXCEPT !.ret = Nil]

\* Iterator.SeekGE.
SeekGE(w, key) ==
    IF w.it.err # NoErr THEN RetNil(w)
    ELSE
    Bind([w EXCEPT !.it.index = biSeekGE(@, key)], LAMBDA w1 :
    IF biKey(w1.it.index) = Nil THEN RetNil(w1)
    ELSE
    Bind(loadBlock(w1), LAMBDA w2 :
    IF ~w2.ok THEN RetNil(w2)
    ELSE
    Bind([w2 EXCEPT !.it.data = biSeekGE(@, key)], LAMBDA w3 :
    IF biKey(w3.it.data) = Nil THEN RetNil(w3)
    ELSE checkUpper(w3))))

\* SeekPrefixGE that asks the filter about the key instead of the prefix.
SeekPrefixGE_FilterOnKey(w, prefix, key) ==
    IF w.it.err # NoErr THEN RetNil(w)
    ELSE
    Bind(IF w.r.tableFilter THEN readFilter(w) ELSE w, LAMBDA wf :
    IF w.r.tableFilter /\ wf.herr # NoErr THEN RetNil(wf)
    ELSE IF w.r.tableFilter /\ ~mayContain(wf.h, key)
    THEN [wf EXCEPT !.it.data = invalidateUpper(@), !.ret = Nil]
    ELSE SeekGE(wf, key))

\* Iterator.SeekPrefixGE.
SeekPrefixGE(w, prefix, key) ==
    IF w.it.err # NoErr THEN RetNil(w)
    ELSE
    Bind(IF w.r.tableFilter THEN readFilter(w) ELSE w, LAMBDA wf :
    IF w.r.tableFilter /\ wf.herr # NoErr THEN RetNil(wf)
    ELSE IF w.r.tableFilter /\ ~mayContain(wf.h, prefix)
    THEN [wf EXCEPT !.it.data = invalidateUpper(@), !.ret = Nil]
    ELSE
    Bind([wf EXCEPT !.it.index = biSeekGE(@, key)], LAMBDA w1 :
    IF biKey(w1.it.index) = Nil THEN RetNil(w1)
    ELSE
    Bind(loadBlock(w1), LAMBDA w2 :
    IF ~w2.ok THEN RetNil(w2)
    ELSE
    Bind([w2 EXCEPT !.it.data = biSeekGE(@, key)], LAMBDA w3 :
    IF biKey(w3.it.data) = Nil THEN RetNil(w3)
    ELSE checkUpper(w3)))))

\* SeekLT without the step back to the previous block when the key sought
\* lies before the first key of the block the index lands on.
SeekLT_NoStepBack(w, key) ==
    IF w.it.err # NoErr THEN RetNil(w)
    ELSE
    Bind(biSeekGE(w.it.index, key), LAMBDA s :
    Bind(loadBlock([w EXCEPT !.it.index = IF biKey(s) = Nil THEN biLast(s) ELSE s]),
         LAMBDA w2 :
    IF ~w2.ok THEN RetNil(w2)
    ELSE
    Bind([w2 EXCEPT !.it.data = biSeekLT(@, key)], LAMBDA w3 :
    IF biKey(w3.it.data) # Nil THEN checkLower(w3)
    ELSE RetNil(w3))))

\* Iterator.SeekLT.
SeekLT(w, key) ==
    IF w.it.err # NoErr THEN RetNil(w)
    ELSE
    Bind(biSeekGE(w.it.index, key), LAMBDA s :
    Bind(loadBlock([w EXCEPT !.it.index = IF biKey(s) = Nil THEN biLast(s) ELSE s]),
         LAMBDA w2 :
    IF ~w2.ok THEN RetNil(w2)
    ELSE
    Bind([w2 EXCEPT !.it.data = biSeekLT(@, key)], LAMBDA w3 :
    IF biKey(w3.it.data) # Nil THEN checkLower(w3)
    ELSE
    Bind([w3 EXCEPT !.it.index = biPrev(@)], LAMBDA w4 :
    IF biKey(w4.it.index) = Nil THEN RetNil(w4)
    ELSE
    Bind(loadBlock(w4), LAMBDA w5 :
    IF ~w5.ok THEN RetNil(w5)
    ELSE
    Bind([w5 EXCEPT !.it.data = biLast(@)], LAMBDA w6 :
    IF biKey(w6.it.data) = Nil THEN RetNil(w6)
    ELSE checkLower(w6)))))))

\* First without the upper-bound check.
First_NoUpperCheck(w) ==
    IF w.it.err # NoErr THEN RetNil(w)
    ELSE
    Bind([w EXCEPT !.it.index = biFirst(@)], LAMBDA w1 :
    IF biKey(w1.it.index) = Nil THEN RetNil(w1)
    ELSE
    Bind(loadBlock(w1), LAMBDA w2 :
    IF ~w2.ok THEN RetNil(w2)
    ELSE
    Bind([w2 EXCEPT !.it.data = biFirst(@)], LAMBDA w3 :
    [w3 EXCEPT !.ret = biKey(w3.it.data)])))

\* Iterator.First.
First(w) ==
    IF w.it.err # NoErr THEN RetNil(w)
    ELSE
    Bind([w EXCEPT !.it.index = biFirst(@)], LAMBDA w1 :
    IF biKey(w1.it.index) = Nil THEN RetNil(w1)
    ELSE
    Bind(loadBlock(w1), LAMBDA w2 :
    IF ~w2.ok THEN RetNil(w2)
    ELSE
    Bind([w2 EXCEPT !.it.data = biFirst(@)], LAMBDA w3 :
    IF biKey(w3.it.data) = Nil THEN RetNil(w3)
    ELSE checkUpper(w3))))

\* Iterator.Last.
Last(w) ==
    IF w.it.err # NoErr THEN RetNil(w)
    ELSE
    Bind([w EXCEPT !.it.index = biLast(@)], LAMBDA w1 :
    IF biKey(w1.it.index) = Nil THEN RetNil(w1)
    ELSE
    Bind(loadBlock(w1), LAMBDA w2 :
    IF ~w2.ok THEN RetNil(w2)
    ELSE
    Bind([w2 EXCEPT !.it.data = biLast(@)], LAMBDA w3 :
    IF biKey(w3.it.data) = Nil THEN RetNil(w3)
    ELSE checkLower(w3))))

RECURSIVE NextLoop(_)
\* The loop of Iterator.Next once the data cursor has run off its block.
NextLoop(w) ==
    IF w.it.data.err # NoErr THEN [w EXCEPT !.it.err = w.it.data.err, !.ret = Nil]
    ELSE
    Bind([w EXCEPT !.it.index = biNext(@)], LAMBDA w1 :
    IF biKey(w1.it.index) = Nil THEN RetNil(w1)
    ELSE
    Bind(loadBlock(w1), LAMBDA w2 :
    IF ~w2.ok THEN NextLoop(w2)
    ELSE
    Bind([w2 EXCEPT !.it.data = biFirst(@)], LAMBDA w3 :
    IF biKey(w3.it.data) = Nil THEN RetNil(w3)
    ELSE checkUpper(w3))))

\* Next that stops at the end of the loaded block instead of moving on to
\* the next one.
Next_StopsAtBlockEnd(w) ==
    IF w.it.err # NoErr THEN RetNil(w)
    ELSE
    Bind([w EXCEPT !.it.data = biNext(@)], LAMBDA w1 :
    IF biKey(w1.it.data) # Nil THEN checkUpper(w1)
    ELSE RetNil(w1))

\* Next without the check of the sticky error.
Next_NoErrCheck(w) ==
    Bind([w EXCEPT !.it.data = biNext(@)], LAMBDA w1 :
    IF biKey(w1.it.data) # Nil THEN checkUpper(w1)
    ELSE NextLoop(w1))

\* Iterator.Next.
Next(w) ==
    IF w.it.err # NoErr THEN RetNil(w)
    ELSE
    Bind([w EXCEPT !.it.data = biNext(@)], LAMBDA w1 :
    IF biKey(w1.it.data) # Nil THEN checkUpper(w1)
    ELSE NextLoop(w1))

RECURSIVE PrevLoop(_)
\* The loop of Iterator.Prev once the data cursor has run off its block.
PrevLoop(w) ==
    IF w.it.data.err # NoErr THEN [w EXCEPT !.it.err = w.it.data.err, !.ret = Nil]
    ELSE
    Bind([w EXCEPT !.it.index = biPrev(@)], LAMBDA w1 :
    IF biKey(w1.it.index) = Nil THEN RetNil(w1)
    ELSE
    Bind(loadBlock(w1), LAMBDA w2 :
    IF ~w2.ok THEN PrevLoop(w2)
    ELSE
    Bind([w2 EXCEPT !.it.data = biLast(@)], LAMBDA w3 :
    IF biKey(w3.it.data) = Nil THEN RetNil(w3)
    ELSE checkLower(w3))))

\* Iterator.Prev.
Prev(w) ==
    IF w.it.err # NoErr THEN RetNil(w)
    ELSE
    Bind([w EXCEPT !.it.data = biPrev(@)], LAMBDA w1 :
    IF biKey(w1.it.data) # Nil THEN checkLower(w1)
    ELSE PrevLoop(w1))

\* Iterator.Valid and Iterator.Error.
Valid(i) == biValid(i.data)
Error(i) == IF i.data.err # NoErr THEN i.data.err ELSE i.err

\* Iterator.SetBounds.
SetBounds(w, lower, upper) == [w EXCEPT !.it.lower = lower, !.it.upper = upper]

\* ------------------------------------------------------ 4.I layout
RECURSIVE LayoutData(_, _, _)
\* The loop of Reader.Layout over the index entries from entry e on, data the
\* handles appended so far: <<l.Data, err>>.
LayoutData(index, e, data) ==
    IF e > Len(index) THEN <<data, NoErr>>
    ELSE
    Bind(decodeBlockHandle(index[e].value), LAMBDA d :
    IF d[2] = 0 \/ d[2] # Len(index[e].value)
    THEN <<(<<>>), ErrCorruptIndex>>
    ELSE LayoutData(index, e + 1, Append(data, d[1])))

\* Reader.Layout on a single-level index: out.layout and out.err are what it
\* returns.
Layout(w) ==
    IF w.r.err # NoErr THEN [w EXCEPT !.out.layout = NoLayout, !.out.err = w.r.err]
    ELSE
    Bind(readIndex(w), LAMBDA w1 :
    IF w1.herr # NoErr
    THEN [w1 EXCEPT !.out.layout = NoLayout, !.out.err = w1.herr]
    ELSE
    Bind(LayoutData(w1.h, 1, <<>>), LAMBDA d :
    IF d[2] # NoErr THEN [w1 EXCEPT !.out.layout = NoLayout, !.out.err = d[2]]
    ELSE [w1 EXCEPT !.out.err = NoErr,
                    !.out.layout =
                        [valid |-> TRUE, Data |-> d[1], Index |-> <<w.r.index.bh>>,
                         Filter |-> w.r.filter.bh, RangeDel |-> w.r.rangeDel.bh,
                         Properties |-> w.r.propertiesBH,
                         MetaIndex |-> w.r.metaIndexBH,
                         Footer |-> w.r.footerBH]]))

\* The blocks Layout.Describe lists, with their names.
DescribeBlocks(l) ==
    {[bh |-> l.Data[e], name |-> "data"] : e \in 1..Len(l.Data)}
    \cup {[bh |-> l.Index[e], name |-> "index"] : e \in 1..Len(l.Index)}
    \cup (IF l.Filter.Length # 0 THEN {[bh |-> l.Filter, name |-> "filter"]} ELSE {})
    \cup (IF l.RangeDel.Length # 0
          THEN {[bh |-> l.RangeDel, name |-> "range-del"]} ELSE {})
    \cup (IF l.Properties.Length # 0
          THEN {[bh |-> l.Properties, name |-> "properties"]} ELSE {})
    \cup (IF l.MetaIndex.Length # 0
          THEN {[bh |-> l.MetaIndex, name |-> "meta-index"]} ELSE {})
    \cup (IF l.Footer.Length # 0
          THEN {[bh |-> l.Footer, name |-> "footer"]} ELSE {})

RECURSIVE SortByOffset(_)
\* sort.Slice(blocks, Offset <).
SortByOffset(bs) ==
    IF bs = {} THEN <<>>
    ELSE Bind(CHOOSE x \in bs : \A y \in bs : x.bh.Offset <= y.bh.Offset, LAMBDA m :
         <<m>> \o SortByOffset(bs \ {m}))

RECURSIVE DescribeLoop(_, _, _, _)
\* The loop of Layout.Describe over the sorted blocks from block e on; a line
\* of out.desc carries the error printed for its block.
DescribeLoop(w, blocks, e, verbose) ==
    IF e > Len(blocks) THEN w
    ELSE
    Bind(blocks[e], LAMBDA b :
    Bind([Offset |-> b.bh.Offset, name |-> b.name, Length |-> b.bh.Length,
          err |-> NoErr], LAMBDA line :
    Bind(IF ~verbose \/ b.name \in {"footer", "leveldb-footer", "filter"}
         THEN [w EXCEPT !.out.desc = Append(@, line)]
         ELSE Bind(readBlock(w, b.bh, FALSE), LAMBDA w1 :
              [w1 EXCEPT !.out.desc = Append(@, [line EXCEPT !.err = w1.herr])]),
         LAMBDA w2 :
    DescribeLoop(w2, blocks, e + 1, verbose))))

\* Layout.Describe(w, verbose, r): out.desc are the lines written.
Describe(w, l, verbose) ==
    DescribeLoop([w EXCEPT !.out.desc = <<>>, !.out.verbose = verbose],
                 SortByOffset(DescribeBlocks(l)), 1, verbose)

\* Reader.NewRangeDelIter: out.iter is whether an iterator is returned,
\* out.rangeDel the block it iterates and a non-nil out.err the error it
\* panics with.
NewRangeDelIter(w) ==
    IF w.r.rangeDel.bh.Length = 0
    THEN [w EXCEPT !.out.iter = FALSE, !.out.rangeDel = <<>>, !.out.err = NoErr]
    ELSE
    Bind(readRangeDel(w), LAMBDA w1 :
    IF w1.herr # NoErr
    THEN [w1 EXCEPT !.out.iter = FALSE, !.out.rangeDel = <<>>, !.out.err = w1.herr]
    ELSE [w1 EXCEPT !.out.iter = TRUE, !.out.rangeDel = w1.h, !.out.err = NoErr])

\* --------------------------------------------- 4.J lifecycle and lookup
\* Iterator.seekBlock(key); w.ok is its result.
seekBlock(w, key) ==
    IF ~biValid(w.it.index)
    THEN [w EXCEPT !.it.err = w.it.index.err, !.ok = FALSE]
    ELSE
    Bind(biValue(w.it.index), LAMBDA v :
    Bind(decodeBlockHandle(v), LAMBDA d :
    IF d[2] = 0 \/ d[2] # Len(v)
    THEN [w EXCEPT !.it.err = ErrCorruptIndex, !.ok = FALSE]
    ELSE
    Bind(readBlock(w, d[1], FALSE), LAMBDA w2 :
    IF w2.herr # NoErr
    THEN [w2 EXCEPT !.it.err = w2.herr, !.ok = FALSE]
    ELSE
    Bind(setCacheHandle(Acquire(w2, d[1].Offset), d[1].Offset), LAMBDA w3 :
    Bind(initBounds([w3.it EXCEPT !.data = biInit(@, w2.h), !.err = NoErr]),
         LAMBDA i :
    [w3 EXCEPT !.it = [i EXCEPT !.data = biSeekGE(@, key)], !.ok = TRUE])))))

\* Iterator.Close that hands the iterator to the pool as it is.
IteratorClose_NoReset(w, hookErr) ==
    Bind([w EXCEPT !.out.hooks = IF w.it.closeHook THEN 1 ELSE 0,
                   !.out.pooled = FALSE], LAMBDA w0 :
    IF w.it.closeHook /\ hookErr # NoErr THEN [w0 EXCEPT !.out.err = hookErr]
    ELSE
    Bind(biClose(w0), LAMBDA w1 :
    IF w.it.data.err # NoErr THEN [w1 EXCEPT !.out.err = w.it.data.err]
    ELSE [w1 EXCEPT !.out.err = w.it.err, !.out.pooled = TRUE]))

\* Iterator.Close that closes the data cursor before it asks the close hook.
IteratorClose_ReleasesBeforeHook(w, hookErr) ==
    Bind(biClose([w EXCEPT !.out.hooks = IF w.it.closeHook THEN 1 ELSE 0,
                           !.out.pooled = FALSE]), LAMBDA w1 :
    IF w.it.closeHook /\ hookErr # NoErr THEN [w1 EXCEPT !.out.err = hookErr]
    ELSE IF w.it.data.err # NoErr THEN [w1 EXCEPT !.out.err = w.it.data.err]
    ELSE [w1 EXCEPT !.out.err = w.it.err, !.it = ZeroIterator,
                    !.out.pooled = TRUE])

\* Iterator.Close; hookErr is what the close hook returns when one is set,
\* out.err what Close returns, out.hooks the number of times it called the
\* hook and out.pooled whether it put the iterator into iterPool.  The
\* iterator of the state is then the zeroed one the pool holds.
IteratorClose(w, hookErr) ==
    Bind([w EXCEPT !.out.hooks = IF w.it.closeHook THEN 1 ELSE 0,
                   !.out.pooled = FALSE], LAMBDA w0 :
    IF w.it.closeHook /\ hookErr # NoErr THEN [w0 EXCEPT !.out.err = hookErr]
    ELSE
    Bind(biClose(w0), LAMBDA w1 :
    IF w.it.data.err # NoErr THEN [w1 EXCEPT !.out.err = w.it.data.err]
    ELSE [w1 EXCEPT !.out.err = w.it.err, !.it = ZeroIterator,
                    !.out.pooled = TRUE]))

\* Reader.Close that leaves Reader.err nil when the file closed cleanly.
ReaderClose_NoStickyError(w, closeErr) ==
    IF w.r.err # NoErr
    THEN IF w.r.file
         THEN [w EXCEPT !.closes = @ + 1, !.r.file = FALSE, !.out.err = w.r.err]
         ELSE [w EXCEPT !.out.err = w.r.err]
    ELSE IF w.r.file
    THEN [w EXCEPT !.closes = @ + 1, !.r.file = FALSE, !.r.err = closeErr,
                   !.out.err = closeErr]
    ELSE [w EXCEPT !.out.err = NoErr]

\* Reader.Close that does not forget the file it has closed.
ReaderClose_KeepsFile(w, closeErr) ==
    IF w.r.err # NoErr
    THEN IF w.r.file
         THEN [w EXCEPT !.closes = @ + 1, !.out.err = w.r.err]
         ELSE [w EXCEPT !.out.err = w.r.err]
    ELSE IF w.r.file
    THEN IF closeErr # NoErr
         THEN [w EXCEPT !.closes = @ + 1, !.r.err = closeErr,
                        !.out.err = closeErr]
         ELSE [w EXCEPT !.closes = @ + 1, !.r.err = ErrClosed,
                        !.out.err = NoErr]
    ELSE [w EXCEPT !.r.err = ErrClosed, !.out.err = NoErr]

\* Reader.Close; closeErr is what the file's Close returns, out.err what
\* Reader.Close returns.
ReaderClose(w, closeErr) ==
    IF w.r.err # NoErr
    THEN IF w.r.file
         THEN [w EXCEPT !.closes = @ + 1, !.r.file = FALSE, !.out.err = w.r.err]
         ELSE [w EXCEPT !.out.err = w.r.err]
    ELSE IF w.r.file
    THEN IF closeErr # NoErr
         THEN [w EXCEPT !.closes = @ + 1, !.r.file = FALSE, !.r.err = closeErr,
                        !.out.err = closeErr]
         ELSE [w EXCEPT !.closes = @ + 1, !.r.file = FALSE, !.r.err = ErrClosed,
                        !.out.err = NoErr]
    ELSE [w EXCEPT !.r.err = ErrClosed, !.out.err = NoErr]

\* Split of the table's comparer: two neighbouring keys share a prefix.
PrefixOf(k) == (k + 1) \div 2

\* Reader.get that returns the record the lookup lands on without comparing
\* its key with the key asked for.
get_NoKeyCompare(w, key) ==
    IF w.r.err # NoErr THEN [w EXCEPT !.out.value = <<>>, !.out.err = w.r.err]
    ELSE
    Bind(IF w.r.tableFilter THEN readFilter(w) ELSE w, LAMBDA wf :
    IF w.r.tableFilter /\ wf.herr # NoErr
    THEN [wf EXCEPT !.out.value = <<>>, !.out.err = wf.herr]
    ELSE IF w.r.tableFilter /\ ~mayContain(wf.h, PrefixOf(key))
    THEN [wf EXCEPT !.out.value = <<>>, !.out.err = ErrNotFound]
    ELSE
    Bind(IteratorInit(wf, Nil, Nil), LAMBDA w0 :
    Bind(IF w0.it.err = NoErr
         THEN seekBlock([w0 EXCEPT !.it.index = biSeekGE(@, key)], key)
         ELSE w0, LAMBDA w1 :
    Bind(IteratorClose(w1, NoErr), LAMBDA w2 :
    IF ~Valid(w1.it)
    THEN [w2 EXCEPT !.it = w.it, !.out.value = <<>>,
                    !.out.err = IF @ = NoErr THEN ErrNotFound ELSE @]
    ELSE [w2 EXCEPT !.it = w.it, !.out.value = biValue(w1.it.data)]))))

\* Reader.get(key): out.value and out.err are what it returns.  The iterator
\* it takes from the pool goes back zeroed; the caller's iterator (it) is
\* another object and is left alone.
get(w, key) ==
    IF w.r.err # NoErr THEN [w EXCEPT !.out.value = <<>>, !.out.err = w.r.err]
    ELSE
    Bind(IF w.r.tableFilter THEN readFilter(w) ELSE w, LAMBDA wf :
    IF w.r.tableFilter /\ wf.herr # NoErr
    THEN [wf EXCEPT !.out.value = <<>>, !.out.err = wf.herr]
    ELSE IF w.r.tableFilter /\ ~mayContain(wf.h, PrefixOf(key))
    THEN [wf EXCEPT !.out.value = <<>>, !.out.err = ErrNotFound]
    ELSE
    Bind(IteratorInit(wf, Nil, Nil), LAMBDA w0 :
    Bind(IF w0.it.err = NoErr
         THEN seekBlock([w0 EXCEPT !.it.index = biSeekGE(@, key)], key)
         ELSE w0, LAMBDA w1 :
    Bind(IteratorClose(w1, NoErr), LAMBDA w2 :
    IF ~Valid(w1.it) \/ Compare(key, biKey(w1.it.data)) # 0
    THEN [w2 EXCEPT !.it = w.it, !.out.value = <<>>,
                    !.out.err = IF @ = NoErr THEN ErrNotFound ELSE @]
    ELSE [w2 EXCEPT !.it = w.it, !.out.value = biValue(w1.it.data)]))))

\* ------------------------------------------- 4.H compaction iterator
\* compactionIterator{}: bytesIterated is the counter the caller shares
\* with it.
ZeroCompaction == [bytesIterated |-> 0, prevOffset |-> 0]

\* uint64 arithmetic, kept to the 30 bits the model's integers leave.
uint64(x) == x % 1073741824

\* Reader.NewCompactionIter(bytesIterated).
NewCompactionIter(w) ==
    [IteratorInit(w, Nil, Nil) EXCEPT !.ci = [ZeroCompaction EXCEPT
                                                !.bytesIterated = w.ci.bytesIterated]]

\* The byte offsets compactionIterator reads off the data cursor: i.data.nextOffset
\* and len(i.data.data).
nextOffset(c) == EntryLen * c.nextOffset
lenData(c) == BlockLen(c.data)

\* compactionIterator.First.
compactionFirst(w) ==
    Bind(First(w), LAMBDA w1 :
    IF w1.ret = Nil
    THEN [w1 EXCEPT !.ci.bytesIterated =
                        uint64(@ + blockTrailerLen + w1.it.dataBH.Length)]
    ELSE
    Bind(IF nextOffset(w1.it.data) + 4 * (numRestarts(w1.it.data.data) + 1)
               = lenData(w1.it.data)
         THEN blockTrailerLen + w1.it.dataBH.Length
         ELSE (nextOffset(w1.it.data) * w1.it.dataBH.Length)
                  \div lenData(w1.it.data), LAMBDA prevOffset :
    [w1 EXCEPT !.ci.prevOffset = prevOffset,
               !.ci.bytesIterated = uint64(@ + prevOffset)]))

RECURSIVE compactionNextLoop(_)
\* The loop of compactionIterator.Next once the data cursor has run off its
\* block; w.ret is the key it leaves the loop with.
compactionNextLoop(w) ==
    IF w.it.data.err # NoErr THEN [w EXCEPT !.it.err = w.it.data.err, !.ret = Nil]
    ELSE
    Bind([w EXCEPT !.it.index = biNext(@)], LAMBDA w1 :
    IF biKey(w1.it.index) = Nil THEN RetNil(w1)
    ELSE
    Bind(loadBlock(w1), LAMBDA w2 :
    IF ~w2.ok THEN compactionNextLoop(w2)
    ELSE
    Bind([w2 EXCEPT !.it.data = biFirst(@)], LAMBDA w3 :
    [w3 EXCEPT !.ret = biKey(w3.it.data)])))

\* compactionIterator.Next that leaves the trailer and the restart points of
\* a block out of the count.
compactionNext_NoTrailer(w) ==
    IF w.it.err # NoErr THEN RetNil(w)
    ELSE
    Bind([w EXCEPT !.it.data = biNext(@)], LAMBDA w0 :
    Bind(IF biKey(w0.it.data) # Nil THEN [w0 EXCEPT !.ret = biKey(w0.it.data)]
         ELSE compactionNextLoop(w0), LAMBDA w1 :
    IF w1.ret = Nil THEN w1
    ELSE
    Bind(w1.it.dataBH.Offset
             + (nextOffset(w1.it.data) * w1.it.dataBH.Length)
                   \div lenData(w1.it.data), LAMBDA curOffset :
    [w1 EXCEPT !.ci.bytesIterated = uint64(@ + uint64(curOffset - w1.ci.prevOffset)),
               !.ci.prevOffset = curOffset])))

\* compactionIterator.Next.
compactionNext(w) ==
    IF w.it.err # NoErr THEN RetNil(w)
    ELSE
    Bind([w EXCEPT !.it.data = biNext(@)], LAMBDA w0 :
    Bind(IF biKey(w0.it.data) # Nil THEN [w0 EXCEPT !.ret = biKey(w0.it.data)]
         ELSE compactionNextLoop(w0), LAMBDA w1 :
    IF w1.ret = Nil THEN w1
    ELSE
    Bind(IF nextOffset(w1.it.data) + 4 * (numRestarts(w1.it.data.data) + 1)
               = lenData(w1.it.data)
         THEN w1.it.dataBH.Offset + w1.it.dataBH.Length + blockTrailerLen
         ELSE w1.it.dataBH.Offset
                  + (nextOffset(w1.it.data) * w1.it.dataBH.Length)
                        \div lenData(w1.it.data), LAMBDA curOffset :
    [w1 EXCEPT !.ci.bytesIterated = uint64(@ + uint64(curOffset - w1.ci.prevOffset)),
               !.ci.prevOffset = curOffset])))

\* ------------------------------------------------------------ actions
NoScan == [dir |-> "none", keys |-> <<>>, done |-> FALSE]
NoOut == [layout |-> NoLayout, desc |-> <<>>, verbose |-> FALSE, iter |-> FALSE,
          rangeDel |-> <<>>, err |-> NoErr, evictions |-> 0, value |-> <<>>,
          base |-> 0, bytes |-> <<>>, bh |-> ZeroBH, n |-> 0, panic |-> FALSE,
          hooks |-> 0, pooled |-> FALSE]

Call(name, prefix, key) == [name |-> name, prefix |-> prefix, key |-> key]

\* The keys operations are called with: the key space of the table up to its
\* last separator, and one beyond.
QueryKeys == 1..(table[Len(table)].sep + 1)

\* The world w an operation ends in becomes the state.
Commit(w, o) ==
    /\ it' = w.it
    /\ cache' = w.cache
    /\ reads' = w.reads
    /\ r' = w.r
    /\ ret' = w.ret
    /\ scan' = w.scan
    /\ out' = w.out
    /\ closes' = w.closes
    /\ handles' = w.handles
    /\ ci' = w.ci
    /\ op' = o
    /\ UNCHANGED <<table, file, th>>

\* A seek starts no scan.
EndScan(w) == [w EXCEPT !.scan = NoScan]

\* The scan a First or Last starts, and the scan after a Next or Prev.
StartScan(dir, w) ==
    [w EXCEPT !.scan = [dir |-> dir,
                        keys |-> IF w.ret = Nil THEN <<>> ELSE <<w.ret>>,
                        done |-> w.ret = Nil]]
Advance(dir, w) ==
    IF w.scan.dir # dir \/ w.scan.done THEN [w EXCEPT !.scan = NoScan]
    ELSE IF w.ret = Nil THEN [w EXCEPT !.scan.done = TRUE]
    ELSE [w EXCEPT !.scan.keys = Append(@, w.ret)]

CallSeekGE ==
    \E k \in QueryKeys :
        \E w \in {EndScan(SeekGE(World, k))} :
            Commit(w, Call("SeekGE", Nil, k))

\* The caller passes the prefix of the key it seeks (Split).
CallSeekPrefixGE ==
    \E k \in QueryKeys :
        \E w \in {EndScan(SeekPrefixGE(World, PrefixOf(k), k))} :
            Commit(w, Call("SeekPrefixGE", PrefixOf(k), k))

CallSeekLT ==
    \E k \in QueryKeys :
        \E w \in {EndScan(SeekLT(World, k))} :
            Commit(w, Call("SeekLT", Nil, k))

CallFirst ==
    \E w \in {StartScan("fwd", First(World))} : Commit(w, Call("First", Nil, Nil))

CallLast ==
    \E w \in {StartScan("bwd", Last(World))} : Commit(w, Call("Last", Nil, Nil))

CallNext ==
    \E w \in {Advance("fwd", Next(World))} : Commit(w, Call("Next", Nil, Nil))

CallPrev ==
    \E w \in {Advance("bwd", Prev(World))} : Commit(w, Call("Prev", Nil, Nil))

\* ------------------------------------------------------- initial states
\* The Reader before NewReader has read anything.
ZeroReader ==
    [file |-> TRUE,
     err |-> NoErr,
     index |-> [bh |-> ZeroBH, handle |-> NoHandle],
     filter |-> [bh |-> ZeroBH, handle |-> NoHandle],
     rangeDel |-> [bh |-> ZeroBH, handle |-> NoHandle],
     rangeDelTransform |-> FALSE,
     tableFilter |-> FALSE,
     NumDataBlocks |-> 0,
     propertiesBH |-> ZeroBH, metaIndexBH |-> ZeroBH, footerBH |-> ZeroBH]

RECURSIVE MetaOf(_, _, _)
\* The loop of Reader.readMetaindex over the metaindex entries from entry e
\* on: <<meta, err>>, meta mapping a name to its block handle.
MetaOf(b, e, meta) ==
    IF e > Len(b) THEN <<meta, NoErr>>
    ELSE
    Bind(decodeBlockHandle(b[e].value), LAMBDA d :
    IF d[2] = 0 THEN <<(<<>>), ErrBadHandle>>
    ELSE MetaOf(b, e + 1, (b[e].UserKey :> d[1]) @@ meta))

\* Reader.readMetaindex; hasPolicy: the options name the policy of the
\* table's filter.  w.herr is the error returned.
readMetaindex(w, metaindexBH, hasPolicy) ==
    Bind(readBlock(w, metaindexBH, FALSE), LAMBDA w1 :
    IF w1.herr # NoErr THEN w1
    ELSE
    Bind(MetaOf(w1.h, 1, <<>>), LAMBDA m :
    IF m[2] # NoErr THEN [w1 EXCEPT !.herr = m[2]]
    ELSE
    Bind(m[1], LAMBDA meta :
    Bind(IF metaPropertiesName \in DOMAIN meta
         THEN readBlock(w1, meta[metaPropertiesName], FALSE) ELSE w1, LAMBDA w2 :
    IF w2.herr # NoErr THEN w2
    ELSE
    Bind(IF metaPropertiesName \in DOMAIN meta
         THEN [w2 EXCEPT !.r.propertiesBH = meta[metaPropertiesName],
                         !.r.NumDataBlocks = w2.h[1].value[1]]
         ELSE w2, LAMBDA w3 :
    Bind(IF metaRangeDelV2Name \in DOMAIN meta
         THEN [w3 EXCEPT !.r.rangeDel.bh = meta[metaRangeDelV2Name]]
         ELSE IF metaRangeDelName \in DOMAIN meta
         THEN [w3 EXCEPT !.r.rangeDel.bh = meta[metaRangeDelName],
                         !.r.rangeDelTransform = TRUE]
         ELSE w3, LAMBDA w4 :
    IF hasPolicy /\ metaFilterName \in DOMAIN meta
    THEN [w4 EXCEPT !.r.filter.bh = meta[metaFilterName],
                    !.r.tableFilter = TRUE]
    ELSE w4))))))

\* NewReader on a file with the given footer.
NewReader(w, footer, hasPolicy) ==
    Bind(readMetaindex(w, footer.metaindexBH, hasPolicy), LAMBDA w1 :
    IF w1.herr # NoErr THEN [w1 EXCEPT !.r.err = w1.herr]
    ELSE [w1 EXCEPT !.r.index.bh = footer.indexBH,
                    !.r.metaIndexBH = footer.metaindexBH,
                    !.r.footerBH = footer.footerBH])

\* Bound of the number of threads inside readWeakCachedBlock.
MaxThreads == 2
Threads == 1..MaxThreads

\* No thread has called readWeakCachedBlock; mu is the slot's RWMutex: the
\* threads holding it for reading and the one holding it for writing.
NoThreads ==
    [pc |-> [t \in Threads |-> "idle"],
     b |-> [t \in Threads |-> <<>>],
     rb |-> [t \in Threads |-> <<>>],
     h |-> [t \in Threads |-> <<>>],
     err |-> [t \in Threads |-> NoErr],
     wh |-> [t \in Threads |-> NoHandle],
     mu |-> [readers |-> {}, writer |-> Nil]]

\* The world NewReader starts in.
ZeroWorld ==
    [it |-> ZeroIterator, cache |-> <<>>, reads |-> {}, r |-> ZeroReader,
     ret |-> Nil, scan |-> NoScan, out |-> NoOut, closes |-> 0,
     ci |-> ZeroCompaction, handles |-> EmptyBag,
     h |-> <<>>, herr |-> NoErr, ok |-> TRUE]

\* The state after NewReader on the file of table t and, when open, after
\* NewIter(lower, upper) on that Reader.
InitTable(t, hasFilter, filter, rangeDel, v1, rdfault, lower, upper, open) ==
    /\ table = t
    /\ file = FileOf(t, hasFilter, filter, rangeDel, v1, rdfault)
    /\ \E w1 \in {NewReader(ZeroWorld, Footer(t, hasFilter, filter, rangeDel, v1),
                            hasFilter)} :
       \E w \in {IF open THEN IteratorInit(w1, lower, upper) ELSE w1} :
           /\ it = w.it
           /\ cache = w.cache
           /\ reads = w.reads
           /\ r = w.r
    /\ op = Call(IF open THEN "NewIter" ELSE "NewReader", Nil, Nil)
    /\ ret = Nil
    /\ scan = NoScan
    /\ out = NoOut
    /\ closes = 0
    /\ handles = EmptyBag
    /\ ci = ZeroCompaction
    /\ th = NoThreads

\* A table with neither filter nor range-del block, and an iterator on it.
InitIter(t, lower, upper) ==
    InitTable(t, FALSE, {}, <<>>, FALSE, NoFault, lower, upper, TRUE)

\* Every well-formed table, an iterator without bounds, no filter, no fault.
Init == \E t \in Tables : InitIter(t, Nil, Nil)

IterStep ==
    \/ CallSeekGE
    \/ CallSeekPrefixGE
    \/ CallSeekLT
    \/ CallFirst
    \/ CallLast
    \/ CallNext
    \/ CallPrev

Spec == Init /\ [][IterStep]_vars

\* ------------------------------------------------------------ oracles
StoredKeys(t) == {AllKeys(t)[e] : e \in 1..Len(AllKeys(t))}

\* The least stored key >= q and the greatest stored key < q, or Nil.
LeastGE(t, q) ==
    LET ge == {k \in StoredKeys(t) : k >= q} IN
    IF ge = {} THEN Nil ELSE CHOOSE k \in ge : \A x \in ge : k <= x

GreatestLT(t, q) ==
    LET lt == {k \in StoredKeys(t) : k < q} IN
    IF lt = {} THEN Nil ELSE CHOOSE k \in lt : \A x \in lt : k >= x

Unbounded == it.lower = Nil /\ it.upper = Nil

\* The data block the index SeekGE(q) lands on: the first whose separator is
\* >= q, or 0.
LandingBlock(t, q) ==
    LET ge == {j \in 1..Len(t) : t[j].sep >= q} IN
    IF ge = {} THEN 0 ELSE CHOOSE j \in ge : \A x \in ge : j <= x

\* ------------------------------------------------------------- claims
\* C1: on an iterator without bounds over a well-formed table, SeekGE(q)
\* returns the least stored key >= q, or nil when there is none, also when q
\* lies between the last key of a block and its separator.
C1_SeekGEReturnsLeastKeyGE ==
    (op.name = "SeekGE" /\ Unbounded /\ WellFormed(table))
        => ret = LeastGE(table, op.key)

\* C2: on an iterator without bounds over a well-formed table, SeekLT(q)
\* returns the greatest stored key < q, or nil when there is none; when the
\* index lands on a block whose first key is >= q the iterator ends one index
\* entry back, on the last key of the previous block.
C2_SeekLTReturnsGreatestKeyLT ==
    (op.name = "SeekLT" /\ Unbounded /\ WellFormed(table))
        => /\ ret = GreatestLT(table, op.key)
           /\ LET j == LandingBlock(table, op.key) IN
              (j > 1 /\ table[j].keys[1] >= op.key)
                 => /\ it.index.offset = j - 2
                    /\ it.dataBH = DataBH(table, j - 1)
                    /\ ret = table[j - 1].keys[Len(table[j - 1].keys)]

\* C2 witness: a SeekLT that stepped back over a block boundary.
C2_Witness ==
    /\ op.name = "SeekLT" /\ Unbounded
    /\ LET j == LandingBlock(table, op.key) IN
       j > 1 /\ table[j].keys[1] >= op.key /\ ret # Nil
       /\ ret = table[j - 1].keys[Len(table[j - 1].keys)]

IsPrefix(a, b) == Len(a) <= Len(b) /\ a = SubSeq(b, 1, Len(a))

\* C3: on an iterator without bounds over a well-formed table, the keys
\* First(); Next()* returns are the stored keys in order, all of them when
\* Next returns nil; and the keys Last(); Prev()* returns are the stored keys
\* in reverse order, all of them when Prev returns nil.
C3_ScanYieldsAllKeysInOrder ==
    (Unbounded /\ WellFormed(table))
        => /\ scan.dir = "fwd" => IsPrefix(scan.keys, AllKeys(table))
           /\ scan.dir = "bwd" => IsPrefix(scan.keys, Reverse(AllKeys(table)))
           /\ (scan.dir = "fwd" /\ scan.done) => scan.keys = AllKeys(table)
           /\ (scan.dir = "bwd" /\ scan.done) => scan.keys = Reverse(AllKeys(table))

\* C3 witness: a backward scan over three blocks ran to its end.
C3_Witness ==
    /\ Unbounded /\ Len(table) = 3
    /\ scan.dir = "bwd" /\ scan.done /\ Len(scan.keys) > 3

\* C3 witness of the forward scan.
C3_WitnessForward ==
    /\ Unbounded /\ Len(table) = 3
    /\ scan.dir = "fwd" /\ scan.done /\ Len(scan.keys) > 3

\* ------------------------------------------------- iterators with bounds
\* The bounds an iterator is created with: lower < upper.
BoundPairs(n) == {b \in (1..n) \X (1..n) : b[1] < b[2]}

\* Every small table under every pair of bounds, and the table of scenario E2
\* under every pair of bounds over its keys and one beyond.
InitBounds ==
    \/ \E t \in SmallTables, b \in BoundPairs(MaxSmallKey + 1) :
          InitIter(t, b[1], b[2])
    \/ \E b \in BoundPairs(9) : InitIter(E2Table, b[1], b[2])

SpecBounds == InitBounds /\ [][IterStep]_vars

UpperOps == {"SeekGE", "SeekPrefixGE", "First", "Next"}
LowerOps == {"SeekLT", "Last", "Prev"}

\* C4: with bounds fixed when the iterator is created, no key returned by
\* SeekGE, SeekPrefixGE, First or Next is >= upper and no key returned by
\* SeekLT, Last or Prev is < lower.
C4_BoundsHonoured ==
    /\ (op.name \in UpperOps /\ ret # Nil /\ it.upper # Nil) => ret < it.upper
    /\ (op.name \in LowerOps /\ ret # Nil /\ it.lower # Nil) => ret >= it.lower

\* C4 witness: a Next that stopped at the upper bound, on a stored key equal
\* to the bound and to the separator of its block.
C4_Witness ==
    /\ op.name = "Next" /\ ret = Nil /\ it.err = NoErr
    /\ scan.dir = "fwd" /\ scan.done /\ scan.keys # <<>>
    /\ it.upper \in StoredKeys(table)
    /\ \E j \in 1..Len(table) : table[j].sep = it.upper
    /\ it.blockUpper = it.upper

KeysBelow(t, u) == SelectSeq(AllKeys(t), LAMBDA k : k < u)
KeysWithin(t, l, u) == SelectSeq(AllKeys(t), LAMBDA k : l <= k /\ k < u)
LastOf(ks) == IF ks = <<>> THEN Nil ELSE ks[Len(ks)]
FirstOf(ks) == IF ks = <<>> THEN Nil ELSE ks[1]

Bounded == it.lower # Nil /\ it.upper # Nil

\* C5 as stated: on an iterator with both bounds, First() returns the least
\* key inside the bounds, First(); Next()* yields exactly the keys in
\* [lower, upper), and Last() returns the greatest key inside the bounds.
C5_FirstAndLastInsideBounds ==
    (Bounded /\ WellFormed(table))
        => LET within == KeysWithin(table, it.lower, it.upper) IN
           /\ op.name = "First" => ret = FirstOf(within)
           /\ (scan.dir = "fwd" /\ scan.done) => scan.keys = within
           /\ op.name = "Last" => ret = LastOf(within)

\* C5 amended: on an iterator with both bounds, First() checks the upper bound
\* alone and Last() the lower bound alone.  First() returns the first stored
\* key when it is < upper, else nil; First(); Next()* yields exactly the
\* stored keys < upper; Last() returns the last stored key when it is >=
\* lower, else nil.  On the table of E2 with lower = c and upper = g: First()
\* returns a, the scan yields a, b, d, e and Last() returns h.
C5_FirstChecksUpperLastChecksLower ==
    (Bounded /\ WellFormed(table))
        => LET ks == AllKeys(table) IN
           /\ op.name = "First"
                => ret = IF FirstOf(ks) < it.upper THEN FirstOf(ks) ELSE Nil
           /\ (scan.dir = "fwd" /\ scan.done)
                => scan.keys = KeysBelow(table, it.upper)
           /\ op.name = "Last"
                => ret = IF LastOf(ks) >= it.lower THEN LastOf(ks) ELSE Nil
           /\ (table = E2Table /\ it.lower = 3 /\ it.upper = 7)
                => /\ op.name = "First" => ret = 1
                   /\ (scan.dir = "fwd" /\ scan.done) => scan.keys = <<1, 2, 4, 5>>
                   /\ op.name = "Last" => ret = 8

\* C5 witness: the forward scan of scenario E3 ran to its end.
C5_Witness ==
    /\ table = E2Table /\ it.lower = 3 /\ it.upper = 7
    /\ scan.dir = "fwd" /\ scan.done /\ scan.keys = <<1, 2, 4, 5>>

\* Last() of scenario E3 returned h.
C5_WitnessLast ==
    /\ table = E2Table /\ it.lower = 3 /\ it.upper = 7
    /\ op.name = "Last" /\ ret = 8

\* ------------------------------------------------ tables with a bad block
\* Every small table with one data block that fails to load, and an
\* iterator without bounds on it.
InitFault ==
    \E t \in WithFault(SmallTables, BlockFaults \cup IndexFaults) :
        InitIter(t, Nil, Nil)

SpecFault == InitFault /\ [][IterStep]_vars

\* The error loading a block with the given fault ends in.
LoadError(fault) ==
    CASE fault \in {FaultCRC, FaultPayload, FaultTypeByte} -> ErrChecksum
      [] fault = FaultUnknownType -> ErrCompression
      [] fault \in IndexFaults -> ErrCorruptIndex
      [] fault = FaultRead -> ErrIO
      [] OTHER -> NoErr

\* The stored keys of the blocks js of table t.
KeysOfBlocks(t, js) == {t[j].keys[e] : <<j, e>> \in
                          {x \in js \X (1..MaxKey + 1) : x[2] <= Len(t[x[1]].keys)}}

\* C6: in a table with a data block that fails to load, a forward scan
\* First(); Next()* and a backward scan Last(); Prev()* return no key of
\* that block or of any block beyond it, and once the scan has returned
\* (nil, nil) Error() reports the load error.
C6_CorruptionNeverSkipped ==
    \A j \in 1..Len(table) :
        table[j].fault # NoFault
            => /\ scan.dir = "fwd"
                    => /\ \A e \in 1..Len(scan.keys) :
                             scan.keys[e] \notin KeysOfBlocks(table, j..Len(table))
                       /\ scan.done => Error(it) = LoadError(table[j].fault)
               /\ scan.dir = "bwd"
                    => /\ \A e \in 1..Len(scan.keys) :
                             scan.keys[e] \notin KeysOfBlocks(table, 1..j)
                       /\ scan.done => Error(it) = LoadError(table[j].fault)

\* C7: once an operation has returned with i.err set, every later SeekGE,
\* SeekPrefixGE, SeekLT, First, Last, Next and Prev returns (nil, nil),
\* leaves the index and data cursors where they were and keeps i.err.
C7_ErrorIsSticky ==
    [][it.err # NoErr => (ret' = Nil /\ it' = it)]_vars

\* C7 witness: a First() that returned on the sticky error, on a table whose
\* first block loads: First() would otherwise have loaded it and cleared
\* the error.
C7_Witness ==
    /\ op.name = "First" /\ ret = Nil
    /\ it.err # NoErr
    /\ table[1].fault = NoFault

\* ------------------------------------------------- tables with a filter
\* The prefixes of the keys operations are called with.
Prefixes == {PrefixOf(k) : k \in 1..(MaxSmallKey + 1)}

\* Every small table without a filter or with a filter block over any set
\* of prefixes, and an iterator on it without a lower bound and with any
\* upper bound or none.
InitFilter ==
    \E t \in SmallTables, u \in {Nil} \cup (2..MaxSmallKey) :
        \/ InitIter(t, Nil, u)
        \/ \E ps \in SUBSET Prefixes :
              InitTable(t, TRUE, ps, <<>>, FALSE, NoFault, Nil, u, TRUE)

SpecFilter == InitFilter /\ [][IterStep]_vars

\* The filter answers no to the prefix p.
FilterSaysNo(p) ==
    r.tableFilter /\ ~mayContain(file[r.filter.bh.Offset].payload, p)

\* C8: on a table whose blocks load, SeekPrefixGE(prefix, key) with a
\* configured filter that answers no to the prefix returns (nil, nil), leaves
\* Valid() false, moves neither the index cursor nor the loaded data block
\* and reads nothing from the file but the filter block; with no filter or a
\* filter that answers yes it returns what SeekGE(key) returns and leaves the
\* cursors where SeekGE(key) leaves them.
C8_FilterNegativeShortCircuits ==
    [][op'.name = "SeekPrefixGE"
         => IF FilterSaysNo(op'.prefix)
            THEN /\ ret' = Nil
                 /\ ~Valid(it')
                 /\ it'.index = it.index
                 /\ it'.dataBH = it.dataBH
                 /\ it'.data.data = it.data.data
                 /\ reads' \subseteq reads \cup {r.filter.bh.Offset}
            ELSE \E s \in {SeekGE(World, op'.key)} :
                 /\ ret' = s.ret
                 /\ it'.index = s.it.index
                 /\ it'.data = s.it.data
                 /\ it'.dataBH = s.it.dataBH]_vars

\* C8 witness: the filter answered no to the prefix of a key the table
\* holds, and no data block has been read from the file.
C8_Witness ==
    /\ op.name = "SeekPrefixGE" /\ ret = Nil
    /\ FilterSaysNo(op.prefix)
    /\ op.key \in StoredKeys(table)
    /\ \A j \in 1..Len(table) : DataOffset(table, j) \notin reads

\* A filter answered yes and SeekPrefixGE returned a key.
C8_WitnessPositive ==
    /\ op.name = "SeekPrefixGE" /\ ret # Nil
    /\ r.tableFilter /\ ~FilterSaysNo(op.prefix)

\* --------------------------------------------------- Reader operations
\* The strong handles held outside the data cursor of the iterator of the
\* state: those of iterators the caller left open, and those Init wrote
\* over.
OtherHandles == handles (-) SetToBag(it.data.cacheHandle)

\* Bound of the number of handles held outside the iterator of the state.
MaxOtherHandles == 1

\* An Init of the iterator variable that adds the handle on the cursor to
\* OtherHandles stays within the bound.
MayInit ==
    it.data.cacheHandle # {} => BagCardinality(OtherHandles) < MaxOtherHandles

\* Reader.NewIter(nil, nil): the iterator of the state is the one returned.
\* It is another object than an iterator the caller still holds, which stays
\* open and keeps its handle: nothing is released.
CallNewIter ==
    /\ MayInit
    /\ \E w \in {EndScan(RetNil(IteratorInit(World, Nil, Nil)))} :
        Commit(w, Call("NewIter", Nil, Nil))

\* Iterator.Init(r, nil, nil) on the iterator NewIter returned: the struct
\* is written over, the handle on the data cursor with it, and not
\* released.
CallInit ==
    /\ it.reader
    /\ MayInit
    /\ \E w \in {EndScan(RetNil(IteratorInit(World, Nil, Nil)))} :
        Commit(w, Call("Init", Nil, Nil))

\* Reader.Layout.
CallLayout ==
    \E w \in {Layout(World)} : Commit(w, Call("Layout", Nil, Nil))

\* Layout.Describe(w, verbose, r) on the layout the last Layout returned.
CallDescribe ==
    /\ out.layout.valid
    /\ \E verbose \in BOOLEAN :
        \E w \in {Describe(World, out.layout, verbose)} :
            Commit(w, Call("Describe", Nil, Nil))

\* Reader.NewRangeDelIter.
CallNewRangeDelIter ==
    \E w \in {NewRangeDelIter(World)} :
        Commit(w, Call("NewRangeDelIter", Nil, Nil))

\* Bound of the number of evictions in a run.
MaxEvictions == 1

\* The block cache evicts the entry of one block.
Evict ==
    /\ out.evictions < MaxEvictions
    /\ \E off \in DOMAIN cache :
        /\ cache' = [o \in DOMAIN cache \ {off} |-> cache[o]]
        /\ out' = [out EXCEPT !.evictions = @ + 1]
        /\ op' = Call("Evict", Nil, Nil)
        /\ UNCHANGED <<table, file, reads, r, it, ret, scan, closes, ci,
                       handles, th>>

\* First and Next on the iterator NewIter returned.
ReaderFirst == it.reader /\ CallFirst
ReaderNext == it.reader /\ CallNext

\* Bound of the keys of the range tombstones.
MaxTombKey == 3

\* A range-del block as a v1 writer leaves it: one or two tombstones in the
\* order they were added, the later one with the higher sequence number.
Spans == {x \in (1..MaxTombKey) \X (1..MaxTombKey) : x[1] < x[2]}
RangeDelBlocksV1 ==
    {<<Tombstone(a[1], a[2], 1)>> : a \in Spans}
    \cup {<<Tombstone(x[1][1], x[1][2], 1), Tombstone(x[2][1], x[2][2], 2)>> :
            x \in {y \in Spans \X Spans : y[1] # y[2]}}

\* The table Reader operations run on: two data blocks of one key each, the
\* first separator between the blocks.
ReaderTables == {<<Block(<<1>>, 2), Block(<<3>>, 3)>>}

\* A Reader, no iterator yet, on: a table with at most one bad data block; a
\* table with a filter block; a table with a v1 range-del block, good or
\* with a CRC that does not match; a table with the v2 block a writer makes
\* of the same tombstones.
InitReader ==
    \/ \E t \in ReaderTables \cup WithFault(ReaderTables, BlockFaults) :
          InitTable(t, FALSE, {}, <<>>, FALSE, NoFault, Nil, Nil, FALSE)
    \/ \E t \in ReaderTables :
          InitTable(t, TRUE, {1}, <<>>, FALSE, NoFault, Nil, Nil, FALSE)
    \/ \E t \in ReaderTables, rd \in RangeDelBlocksV1,
          f \in {NoFault, FaultCRC, FaultTypeByte} :
          InitTable(t, FALSE, {}, rd, TRUE, f, Nil, Nil, FALSE)
    \/ \E t \in ReaderTables, rd \in RangeDelBlocksV1 :
          InitTable(t, FALSE, {}, transformRangeDelV1(rd), FALSE, NoFault,
                    Nil, Nil, FALSE)

ReaderStep ==
    \/ CallNewIter
    \/ CallLayout
    \/ CallDescribe
    \/ CallNewRangeDelIter
    \/ Evict
    \/ ReaderFirst
    \/ ReaderNext

SpecReader == InitReader /\ [][ReaderStep]_vars

\* The blocks of the file whose stored CRC is not the CRC of payload and
\* type.
Mismatched == {off \in DOMAIN file :
                 file[off].crc # Checksum(file[off].payload, file[off].typ)}

\* The block at off is the table's range-del block.
IsRangeDel(off) == r.rangeDel.bh.Length # 0 /\ off = r.rangeDel.bh.Offset

\* C9: a block whose stored CRC does not match is never in the block cache,
\* none of its bytes reach a caller (the data cursor, the range-del iterator)
\* and every fetch of it ends in the checksum error, also when its type byte
\* is no known compression type: from the iterator, from a verbose Describe
\* and from NewRangeDelIter.
C9_ChecksumMismatchServesNothing ==
    \A off \in Mismatched :
        /\ off \notin DOMAIN cache
        /\ it.data.data # file[off].payload
        /\ IsRangeDel(off) => out.rangeDel = <<>>
        /\ (it.dataBH.Offset = off /\ op.name \in {"First", "Next"})
              => (ret = Nil /\ it.err = ErrChecksum)
        /\ out.verbose
              => \A e \in 1..Len(out.desc) :
                    out.desc[e].Offset = off => out.desc[e].err = ErrChecksum
        /\ (op.name = "NewRangeDelIter" /\ IsRangeDel(off))
              => (~out.iter /\ out.err = ErrChecksum)

\* C9 witness: the iterator fetched a data block whose type byte was changed
\* to no known compression type, and reports the checksum error.
C9_Witness ==
    /\ op.name \in {"First", "Next"}
    /\ it.dataBH.Offset \in Mismatched
    /\ file[it.dataBH.Offset].typ \notin {noCompressionBlockType,
                                          snappyCompressionBlockType}
    /\ it.dataBH.Offset \in reads
    /\ it.err = ErrChecksum

\* A verbose Describe met a range-del block whose CRC does not match.
C9_WitnessDescribe ==
    /\ op.name = "Describe" /\ out.verbose
    /\ \E off \in Mismatched : IsRangeDel(off) /\ off \in reads

\* The fragments of a v2 range-del block: sorted by start key, and two
\* fragments cover the same span or do not overlap.
IsFragmented(b) ==
    \A e \in 1..Len(b), f \in 1..Len(b) :
        e < f => /\ b[e].UserKey <= b[f].UserKey
                 /\ \/ (b[e].UserKey = b[f].UserKey /\ b[e].value = b[f].value)
                    \/ b[e].value[1] <= b[f].UserKey

\* C10: on a table with a v1 range-del block, every block NewRangeDelIter
\* hands out is the transformed block, its fragments sorted and not
\* overlapping, whatever Reader operations ran before; and the block cache
\* never holds the untransformed v1 payload under the range-del block's key.
C10_RangeDelAlwaysTransformed ==
    r.rangeDelTransform
        => LET off == r.rangeDel.bh.Offset
               raw == file[off].payload
           IN  /\ out.iter => /\ out.rangeDel = transformRangeDelV1(raw)
                              /\ IsFragmented(out.rangeDel)
               /\ off \in DOMAIN cache => cache[off] = transformRangeDelV1(raw)

\* ----------------------------------------------------- Reader lifecycle
\* An error a close hook returns.
ErrHook == "close hook error"

\* Reader.Close, once the iterators handed out have been closed (the table
\* cache's reference count keeps the Reader open until then); the file's
\* Close returns nil or an error.
CallClose ==
    /\ ~it.reader
    /\ \E e \in {NoErr, ErrFileClose} :
        \E w \in {ReaderClose(World, e)} :
            Commit(w, Call("Reader.Close", Nil, Nil))

\* Reader.get(k).
CallGet ==
    \E k \in QueryKeys :
        \E w \in {get(World, k)} : Commit(w, Call("get", Nil, k))

\* Iterator.Close on the iterator NewIter returned; its close hook, when one
\* is set, returns nil or an error.
CallIterClose ==
    /\ it.reader
    /\ \E e \in {NoErr, ErrHook} :
        \E w \in {EndScan(RetNil(IteratorClose(World, e)))} :
            Commit(w, Call(IF it.closeHook /\ e # NoErr
                           THEN "Iterator.Close, hook error"
                           ELSE "Iterator.Close", Nil, Nil))

\* The positioning operations on the iterator NewIter returned.
ReaderIterStep == it.reader /\ IterStep

\* A Reader whose construction failed: the file ends before the metaindex
\* block, so that NewReader stored the read error.
InitFailed ==
    \E t \in ReaderTables :
        /\ table = t
        /\ file = [o \in DOMAIN FileOf(t, FALSE, {}, <<>>, FALSE, NoFault)
                         \ {MetaIndexOffset(t, FALSE, {}, <<>>)} |->
                       FileOf(t, FALSE, {}, <<>>, FALSE, NoFault)[o]]
        /\ \E w \in {NewReader(ZeroWorld, Footer(t, FALSE, {}, <<>>, FALSE), FALSE)} :
            /\ it = w.it
            /\ cache = w.cache
            /\ reads = w.reads
            /\ r = w.r
        /\ op = Call("NewReader", Nil, Nil)
        /\ ret = Nil
        /\ scan = NoScan
        /\ out = NoOut
        /\ closes = 0
        /\ handles = EmptyBag
        /\ ci = ZeroCompaction
        /\ th = NoThreads

\* Init was called on an iterator that held a block: the handle of that
\* block is still held and is on no cursor.
InitKeepsHandle ==
    /\ op.name = "Init" /\ it.data.cacheHandle = {}
    /\ BagCardinality(handles) = 1

\* A Reader, no iterator yet, on a non-nil file: a good table without and
\* with a filter block, a table with a range-del block (v1 or v2), and a
\* table whose construction failed.
InitClose ==
    \/ \E t \in ReaderTables :
          InitTable(t, FALSE, {}, <<>>, FALSE, NoFault, Nil, Nil, FALSE)
    \/ \E t \in ReaderTables :
          InitTable(t, TRUE, {1}, <<>>, FALSE, NoFault, Nil, Nil, FALSE)
    \/ \E t \in ReaderTables, v1 \in BOOLEAN :
          InitTable(t, FALSE, {}, <<Tombstone(1, 2, 1)>>, v1, NoFault,
                    Nil, Nil, FALSE)
    \/ InitFailed

CloseStep ==
    \/ CallNewIter
    \/ CallInit
    \/ CallIterClose
    \/ ReaderIterStep
    \/ CallGet
    \/ CallLayout
    \/ CallNewRangeDelIter
    \/ CallClose

SpecClose == InitClose /\ [][CloseStep]_vars

PositioningOps ==
    {"SeekGE", "SeekPrefixGE", "SeekLT", "First", "Last", "Next", "Prev"}

\* C11: after Reader.Close has returned, get and Layout return the closed
\* error, and the iterator NewIter returns yields nothing from every
\* positioning operation and reports the closed error from Error and Close.
C11_ClosedReaderReportsClosedError ==
    closes > 0 =>
        /\ op.name \in {"get", "Layout"} => out.err = ErrClosed
        /\ op.name = "Layout" => ~out.layout.valid
        /\ op.name = "get" => out.value = <<>>
        /\ it.reader => Error(it) = ErrClosed
        /\ op.name \in PositioningOps => ret = Nil
        /\ op.name = "Iterator.Close" => out.err = ErrClosed

\* C11, as the code has it: after Reader.Close has returned, Reader.err is
\* not nil, and it is the error get, Layout and the iterator of NewIter
\* report; it is the closed error when construction had stored no error and
\* the file's Close returned nil, otherwise the construction error or the
\* error of the file's Close.
C11_ClosedReaderReportsReaderErr ==
    closes > 0 =>
        /\ r.err \in {ErrClosed, ErrFileClose, ErrIO}
        /\ op.name \in {"get", "Layout"} => out.err = r.err
        /\ op.name = "Layout" => ~out.layout.valid
        /\ op.name = "get" => out.value = <<>>
        /\ it.reader => Error(it) = r.err
        /\ op.name \in PositioningOps => ret = Nil
        /\ op.name = "Iterator.Close" => out.err = r.err

\* A cleanly closed Reader whose new iterator was positioned with First.
C11_Witness ==
    closes > 0 /\ r.err = ErrClosed /\ it.reader /\ op.name = "First"

\* get on a Reader whose file failed to close.
C11_WitnessGet ==
    closes > 0 /\ r.err = ErrFileClose /\ op.name = "get" /\ out.err = ErrFileClose

\* C12: over any sequence of Reader.Close calls on a Reader built on a
\* non-nil file, the file's Close is invoked exactly once, by the first
\* Reader.Close; every later Reader.Close returns a non-nil error; and a
\* non-nil Reader.err never changes again.
C12_FileClosedOnceErrSticky ==
    [][/\ op'.name = "Reader.Close" => closes' = 1
       /\ op'.name # "Reader.Close" => closes' = closes
       /\ (op'.name = "Reader.Close" /\ closes > 0) => out'.err # NoErr
       /\ r.err # NoErr => r'.err = r.err]_vars

\* A second Reader.Close, after a first one that closed the file cleanly.
C12_Witness ==
    closes = 1 /\ op.name = "Reader.Close" /\ out.err = ErrClosed

\* A Reader.Close on a Reader whose construction stored an error.
C12_WitnessFailed ==
    closes = 1 /\ op.name = "Reader.Close" /\ r.err = ErrIO /\ ~r.file

\* C13: after Reader.Close, NewRangeDelIter on a table with a range-del
\* block fails with the Reader's sticky error: it returns no iterator over
\* the range-del block and attempts no read on the nil file.
C13_ClosedReaderNoRangeDelIter ==
    (closes > 0 /\ op.name = "NewRangeDelIter" /\ r.rangeDel.bh.Length # 0) =>
        /\ ~out.iter
        /\ out.err = r.err

\* ------------------------------------------------ compaction iterator
\* First is called while the counter has not passed MaxBytes.
MaxBytes == 60

\* compactionIterator.First; out.base is the counter before the call.
CallCompactionFirst ==
    /\ ci.bytesIterated <= MaxBytes
    /\ \E w \in {StartScan("fwd", compactionFirst(World))} :
   
        Commit([w EXCEPT !.out.base = ci.bytesIterated], Call("First", Nil, Nil))

\* compactionIterator.Next.
CallCompactionNext ==
    \E w \in {Advance("fwd", compactionNext(World))} :
        Commit(w, Call("Next", Nil, Nil))

\* The iterator NewCompactionIter returns on every well-formed table; the
\* caller's counter starts at 0.
InitCompaction ==
    \E t \in Tables :
        /\ table = t
        /\ file = FileOf(t, FALSE, {}, <<>>, FALSE, NoFault)
        /\ \E w1 \in {NewReader(ZeroWorld, Footer(t, FALSE, {}, <<>>, FALSE), FALSE)} :
           \E w \in {NewCompactionIter(w1)} :
               /\ it = w.it
               /\ cache = w.cache
               /\ reads = w.reads
               /\ r = w.r
               /\ ci = w.ci
        /\ op = Call("NewCompactionIter", Nil, Nil)
        /\ ret = Nil
        /\ scan = NoScan
        /\ out = NoOut
        /\ closes = 0
        /\ handles = EmptyBag
        /\ th = NoThreads

CompactionStep ==
    \/ CallCompactionFirst
    \/ CallCompactionNext

SpecCompaction == InitCompaction /\ [][CompactionStep]_vars

RECURSIVE TotalBytes(_, _)
\* The sum of Length + 5 over the data blocks j..Len(t) of table t.
TotalBytes(t, j) ==
    IF j > Len(t) THEN 0
    ELSE DataBH(t, j).Length + blockTrailerLen + TotalBytes(t, j + 1)

\* C14: on a table whose data blocks lie contiguously from offset 0, the
\* counter of a compaction iterator never decreases; when First() and then
\* Next() until (nil, nil) have run, it has grown by the sum of Length + 5
\* over all data blocks; a Next() after exhaustion adds nothing.
C14_BytesIteratedCountsEveryBlock ==
    [][/\ ci'.bytesIterated >= ci.bytesIterated
       /\ (scan'.dir = "fwd" /\ scan'.done) =>
              ci'.bytesIterated - out'.base = TotalBytes(table, 1)
       /\ (op.name \in {"First", "Next"} /\ ret = Nil /\ op'.name = "Next") =>
              ci'.bytesIterated = ci.bytesIterated]_vars

\* A scan of a table of several blocks has run to its end, and one more
\* Next() was called.
C14_Witness ==
    /\ Len(table) > 1
    /\ ci.bytesIterated = TotalBytes(table, 1)
    /\ op.name = "Next" /\ ret = Nil /\ scan = NoScan

\* ----------------------------------------------------- iterator pool
\* Reader.NewIter(lower, upper) with no bound, one bound or both: the
\* iterator comes from the pool, where Iterator.Close has put it.
CallNewIterBounds ==
    /\ ~it.reader
    /\ \E lower \in {Nil, 1, 2}, upper \in {Nil, 3} :
        \E w \in {EndScan(RetNil(IteratorInit(World, lower, upper)))} :
            Commit(w, Call("NewIter", Nil, Nil))

\* Iterator.SetCloseHook.
CallSetCloseHook ==
    /\ it.reader
    /\ ~it.closeHook
    /\ it' = [it EXCEPT !.closeHook = TRUE]
    /\ op' = Call("SetCloseHook", Nil, Nil)
    /\ UNCHANGED <<table, file, cache, reads, r, ret, scan, out, closes, ci,
                   handles, th>>

\* A Reader, no iterator yet, on a table of two blocks of which at most one
\* fails to load.
InitPool ==
    \E t \in ReaderTables \cup WithFault(ReaderTables, {FaultCRC, FaultTruncated}) :
        InitTable(t, FALSE, {}, <<>>, FALSE, NoFault, Nil, Nil, FALSE)

PoolStep ==
    \/ CallNewIterBounds
    \/ CallSetCloseHook
    \/ ReaderIterStep
    \/ CallIterClose
    \/ CallGet

SpecPool == InitPool /\ [][PoolStep]_vars

\* C15: an Iterator.Close that returns without a close-hook error leaves
\* every field of the Iterator zero, and the iterator NewIter takes from
\* the pool after an earlier use is the one Init makes of a freshly
\* allocated Iterator: no bound, block bound, handle, cursor, error or close
\* hook of the earlier use is left in it.
C15_PooledIteratorIsFresh ==
    [][/\ op'.name = "Iterator.Close" => it' = ZeroIterator
       /\ op'.name = "NewIter" =>
              it' = IteratorInit([World EXCEPT !.it = ZeroIterator],
                                 it'.lower, it'.upper).it]_vars

\* An iterator with bounds, a close hook and a sticky error was closed.
C15_Witness ==
    /\ op.name = "Iterator.Close" /\ out.err # NoErr
    /\ it = ZeroIterator
    /\ reads # {}

\* NewIter after an earlier iterator has loaded the second data block and
\* was closed.
C15_WitnessReuse ==
    /\ op.name = "NewIter" /\ it.lower # Nil /\ it.upper = Nil
    /\ DataOffset(table, 2) \in DOMAIN cache

\* ------------------------------------------------------------ lookups
\* The prefixes of the stored keys of table t.
StoredPrefixes(t) == {PrefixOf(AllKeys(t)[e]) : e \in 1..Len(AllKeys(t))}

\* A Reader, no iterator, on: every small table, all blocks good or one
\* failing to load; every small table with the filter block of a policy
\* without false negatives, over the prefixes of its keys and any others.
InitGet ==
    \/ \E t \in SmallTables \cup WithFault(SmallTables, BlockFaults \cup IndexFaults) :
          InitTable(t, FALSE, {}, <<>>, FALSE, NoFault, Nil, Nil, FALSE)
    \/ \E t \in SmallTables, ps \in SUBSET Prefixes :
          /\ StoredPrefixes(t) \subseteq ps
          /\ InitTable(t, TRUE, ps, <<>>, FALSE, NoFault, Nil, Nil, FALSE)

GetStep ==
    \/ CallGet
    \/ Evict

SpecGet == InitGet /\ [][GetStep]_vars

\* What get(k) is to return on table t, as <<value, err>>: the error of the
\* block the index lands on when that block fails to load, the stored
\* value when k is a key of that block, ErrNotFound otherwise.
Lookup(t, k) ==
    LET j == LandingBlock(t, k) IN
    IF j = 0 THEN <<(<<>>), ErrNotFound>>
    ELSE IF t[j].fault # NoFault THEN <<(<<>>), LoadError(t[j].fault)>>
    ELSE IF \E e \in 1..Len(t[j].keys) : t[j].keys[e] = k
    THEN <<DataEntry(k).value, NoErr>>
    ELSE <<(<<>>), ErrNotFound>>

\* C16: on an open Reader get(k) returns the stored value of k when k is a
\* key of the table and ErrNotFound when it is not (the filter answers no,
\* k lies between two blocks, k lies beyond the last key); it never returns
\* the value of another key; the error of a block that fails to load is
\* returned as that error.
C16_GetReturnsStoredValueOrNotFound ==
    op.name = "get" =>
        /\ <<out.value, out.err>> =
              IF FilterSaysNo(PrefixOf(op.key)) THEN <<(<<>>), ErrNotFound>>
              ELSE Lookup(table, op.key)
        /\ out.value # <<>> =>
              op.key \in StoredKeys(table) /\ out.value = DataEntry(op.key).value
        /\ (op.key \in StoredKeys(table)
                /\ \A j \in 1..Len(table) : table[j].fault = NoFault) =>
              out.value = DataEntry(op.key).value /\ out.err = NoErr
        /\ op.key \notin StoredKeys(table) => out.err # NoErr

\* get of an absent key that lies between the last key of a block and the
\* first key of the next block.
C16_Witness ==
    /\ op.name = "get" /\ out.err = ErrNotFound
    /\ LandingBlock(table, op.key) \in 1..(Len(table) - 1)
    /\ \A e \in 1..Len(AllKeys(table)) : AllKeys(table)[e] # op.key

\* get whose block fails to load, and get the filter answers no to.
C16_WitnessLoadError ==
    op.name = "get" /\ out.err = ErrChecksum
C16_WitnessFilter ==
    op.name = "get" /\ FilterSaysNo(PrefixOf(op.key)) /\ out.err = ErrNotFound
C16_WitnessFound ==
    op.name = "get" /\ out.err = NoErr /\ r.tableFilter /\ out.evictions > 0

\* ---------------------------------------------------- block handle codec
\* The offsets and lengths of the handles encoded: one to four bytes long as
\* varints.
CodecValues == {0, 1, 127, 128, 300, 16384, 2097152}
Handles == [Offset : CodecValues, Length : CodecValues]

\* Varints that overflow 64 bits: ten bytes of which the last is above 1,
\* and eleven bytes.
Overflow10 == <<128, 128, 128, 128, 128, 128, 128, 128, 128, 2>>
Overflow11 == <<128, 128, 128, 128, 128, 128, 128, 128, 128, 128, 0>>
\* The ten-byte encoding of 0.
Zero10 == <<128, 128, 128, 128, 128, 128, 128, 128, 128, 0>>

\* The inputs of decodeBlockHandle: the encoding of every handle, whole and
\* cut short, and inputs whose first or second varint overflows.
CodecInputs ==
    {SubSeq(encodeBlockHandle(bh), 1, k) :
        <<bh, k>> \in {x \in Handles \X (0..8) : x[2] <= Len(encodeBlockHandle(x[1]))}}
    \cup {o \o <<1>> : o \in {Overflow10, Overflow11}}
    \cup {<<1>> \o o : o \in {Overflow10, Overflow11}}
    \cup {<<172, 2>> \o Overflow10, Zero10 \o Overflow10, Zero10 \o <<5>>}

\* encodeBlockHandle(dst, bh): out.bytes are the bytes written, out.n their
\* number.
CallEncode ==
    /\ \E bh \in Handles :
        out' = [out EXCEPT !.bytes = encodeBlockHandle(bh), !.bh = bh,
                           !.n = Len(encodeBlockHandle(bh)), !.panic = FALSE]
    /\ op' = Call("encodeBlockHandle", Nil, Nil)
    /\ UNCHANGED <<table, file, cache, reads, r, it, ret, scan, closes, ci,
                   handles, th>>

\* decodeBlockHandle(src): out.bh and out.n are what it returns, out.panic
\* whether it panicked instead.
CallDecode ==
    /\ \E src \in CodecInputs :
        \E d \in {decodeBlockHandle(src)} :
            out' = [out EXCEPT !.bytes = src, !.bh = d[1], !.n = d[2],
                               !.panic = d[3]]
    /\ op' = Call("decodeBlockHandle", Nil, Nil)
    /\ UNCHANGED <<table, file, cache, reads, r, it, ret, scan, closes, ci,
                   handles, th>>

CodecStep ==
    \/ CallEncode
    \/ CallDecode

SpecCodec ==
    /\ \E t \in ReaderTables :
          InitTable(t, FALSE, {}, <<>>, FALSE, NoFault, Nil, Nil, FALSE)
    /\ [][CodecStep]_vars

RECURSIVE VarintLen(_, _)
\* The number of bytes of the varint that starts at src[i], up to its first
\* byte below 128, or 0 when src ends before.
VarintLen(src, i) ==
    IF i > Len(src) THEN 0
    ELSE IF src[i] < 128 THEN 1
    ELSE IF VarintLen(src, i + 1) = 0 THEN 0
    ELSE 1 + VarintLen(src, i + 1)

\* The varint at src[i] is cut short or overflows 64 bits.
BadVarint(src, i) ==
    \/ VarintLen(src, i) = 0
    \/ VarintLen(src, i) > 10
    \/ VarintLen(src, i) = 10 /\ src[i + 9] > 1

Malformed(src) ==
    BadVarint(src, 1) \/ BadVarint(src, 1 + VarintLen(src, 1))

\* C17: decodeBlockHandle returns the zero handle and 0 on every input of
\* which one of the two varints is cut short or overflows 64 bits, and on
\* the bytes encodeBlockHandle writes for a handle it returns that handle
\* and the number of bytes written.
C17_DecodeRejectsMalformedAndRoundTrips ==
    op.name = "decodeBlockHandle" =>
        /\ Malformed(out.bytes) =>
              ~out.panic /\ out.bh = ZeroBH /\ out.n = 0
        /\ \A bh \in Handles :
              out.bytes = encodeBlockHandle(bh) =>
                  ~out.panic /\ out.bh = bh /\ out.n = Len(out.bytes)

\* ------------------------------- readWeakCachedBlock, thread by thread
\* Thread t inside Reader.readWeakCachedBlock on the index slot, one action
\* per statement that touches the lock, the handle or the cache.  th.pc[t]
\* is where the thread stands, th.b[t] its b (<<>> for nil), th.rb[t] the
\* block readBlock read from the file, th.h[t] the bytes of the strong
\* handle readBlock returned, th.wh[t] the weak handle it got, th.mu the
\* slot's RWMutex.

\* w.mu.RLock(): waits while a writer holds the lock.
WRLock(t) ==
    /\ th.pc[t] = "idle"
    /\ th.mu.writer = Nil
    /\ th' = [th EXCEPT !.pc[t] = "rlocked", !.mu.readers = @ \cup {t},
                        !.b[t] = <<>>, !.rb[t] = <<>>, !.h[t] = <<>>,
                        !.err[t] = NoErr, !.wh[t] = NoHandle]
    /\ UNCHANGED <<table, file, cache, reads, r, it, op, ret, scan, out,
                   closes, ci, handles>>

\* if w.handle != nil { b = w.handle.Get() }
WGet(t) ==
    /\ th.pc[t] = "rlocked"
    /\ th' = [th EXCEPT !.pc[t] = "got",
                        !.b[t] = IF WeakHit(cache, r.index.handle)
                                 THEN r.index.handle.b ELSE <<>>]
    /\ UNCHANGED <<table, file, cache, reads, r, it, op, ret, scan, out,
                   closes, ci, handles>>

\* w.mu.RUnlock() that leaves the read lock held.
WRUnlock_KeepsLock(t) ==
    /\ th.pc[t] = "got"
    /\ th' = [th EXCEPT !.pc[t] = IF th.b[t] # <<>> THEN "done" ELSE "miss"]
    /\ UNCHANGED <<table, file, cache, reads, r, it, op, ret, scan, out,
                   closes, ci, handles>>

\* w.mu.RUnlock(); if b != nil { return b, nil }
WRUnlock(t) ==
    /\ th.pc[t] = "got"
    /\ th' = [th EXCEPT !.pc[t] = IF th.b[t] # <<>> THEN "done" ELSE "miss",
                        !.mu.readers = @ \ {t}]
    /\ UNCHANGED <<table, file, cache, reads, r, it, op, ret, scan, out,
                   closes, ci, handles>>

\* readBlock, first statement: h := r.cache.Get(..., bh.Offset); on a hit
\* readBlock returns h, on a miss the thread goes on to read the file.  No
\* lock is held from here to the end of readBlock.
WCacheGet(t) ==
    /\ th.pc[t] = "miss"
    /\ th' = IF r.index.bh.Offset \in DOMAIN cache
             THEN [th EXCEPT !.pc[t] = "loaded",
                             !.h[t] = cache[r.index.bh.Offset]]
             ELSE [th EXCEPT !.pc[t] = "reading"]
    /\ UNCHANGED <<table, file, cache, reads, r, it, op, ret, scan, out,
                   closes, ci, handles>>

\* readBlock from r.file.ReadAt to the transform: the statements of
\* readBlock that follow a cache miss and come before cache.Set, which are
\* those readBlock runs on an empty cache.  An error returns from
\* readWeakCachedBlock; otherwise th.rb[t] is the block to be cached.
WReadAt(t) ==
    /\ th.pc[t] = "reading"
    /\ \E w \in {readBlock([World EXCEPT !.cache = <<>>], r.index.bh, FALSE)} :
        /\ reads' = w.reads
        /\ th' = IF w.herr # NoErr
                 THEN [th EXCEPT !.pc[t] = "done", !.err[t] = w.herr]
                 ELSE [th EXCEPT !.pc[t] = "read", !.rb[t] = w.h]
    /\ UNCHANGED <<table, file, cache, r, it, op, ret, scan, out, closes, ci,
                   handles>>

\* h := r.cache.Set(..., bh.Offset, b); return h, nil: the entry of the
\* block is replaced, whoever set it before.
WCacheSet(t) ==
    /\ th.pc[t] = "read"
    /\ cache' = (r.index.bh.Offset :> th.rb[t]) @@ cache
    /\ th' = [th EXCEPT !.pc[t] = "loaded", !.h[t] = th.rb[t]]
    /\ UNCHANGED <<table, file, reads, r, it, op, ret, scan, out, closes, ci,
                   handles>>

\* b = h.Get(); if wh := h.Weak(); wh != nil { ... }: the strong handle
\* keeps its bytes whatever the cache evicted since.  Whether the handle
\* exposes a weak pointer is the cache's choice; without one nothing is
\* published.
WWeak(t) ==
    /\ th.pc[t] = "loaded"
    /\ \E weak \in BOOLEAN :
        th' = IF weak
              THEN [th EXCEPT !.pc[t] = "publish", !.b[t] = th.h[t],
                              !.wh[t] = [valid |-> TRUE,
                                         off |-> r.index.bh.Offset,
                                         b |-> th.h[t]]]
              ELSE [th EXCEPT !.pc[t] = "done", !.b[t] = th.h[t]]
    /\ UNCHANGED <<table, file, cache, reads, r, it, op, ret, scan, out,
                   closes, ci, handles>>

\* w.mu.Lock(): waits while any thread holds the lock.
WLock(t) ==
    /\ th.pc[t] = "publish"
    /\ th.mu.readers = {}
    /\ th.mu.writer = Nil
    /\ th' = [th EXCEPT !.pc[t] = "wlocked", !.mu.writer = t]
    /\ UNCHANGED <<table, file, cache, reads, r, it, op, ret, scan, out,
                   closes, ci, handles>>

\* w.handle = wh; w.mu.Unlock()
WPublish(t) ==
    /\ th.pc[t] = "wlocked"
    /\ r' = [r EXCEPT !.index.handle = th.wh[t]]
    /\ th' = [th EXCEPT !.pc[t] = "done", !.mu.writer = Nil]
    /\ UNCHANGED <<table, file, cache, reads, it, op, ret, scan, out, closes,
                   ci, handles>>

\* return b, err: the thread is free to call again.
WReturn(t) ==
    /\ th.pc[t] = "done"
    /\ th' = [th EXCEPT !.pc[t] = "idle"]
    /\ UNCHANGED <<table, file, cache, reads, r, it, op, ret, scan, out,
                   closes, ci, handles>>

WeakStep ==
    \/ \E t \in Threads : WRLock(t)
    \/ \E t \in Threads : WGet(t)
    \/ \E t \in Threads : WRUnlock(t)
    \/ \E t \in Threads : WCacheGet(t)
    \/ \E t \in Threads : WReadAt(t)
    \/ \E t \in Threads : WCacheSet(t)
    \/ \E t \in Threads : WWeak(t)
    \/ \E t \in Threads : WLock(t)
    \/ \E t \in Threads : WPublish(t)
    \/ \E t \in Threads : WReturn(t)
    \/ Evict

\* A Reader whose blocks are all good, and no thread inside
\* readWeakCachedBlock.
SpecWeak ==
    /\ \E t \in ReaderTables :
          InitTable(t, FALSE, {}, <<>>, FALSE, NoFault, Nil, Nil, FALSE)
    /\ [][WeakStep]_vars

\* Thread t waits for the lock.
Waiting(t) ==
    \/ th.pc[t] = "idle" /\ th.mu.writer # Nil
    \/ th.pc[t] = "publish" /\ (th.mu.readers # {} \/ th.mu.writer # Nil)

\* C18: with several threads inside readWeakCachedBlock on one slot, in any
\* interleaving and with cache eviction: no thread holds the slot's lock
\* when it runs readBlock; the write lock is held only to publish a weak
\* handle; the threads are never all waiting for the lock; every call
\* returns the payload of the slot's block; and the weak handle installed
\* is one of the cache entry of that block.
C18_WeakSlotThreadSafe ==
    /\ \A t \in Threads :
          /\ th.pc[t] \in {"miss", "reading", "read", "loaded", "publish",
                           "done", "idle"} =>
                t \notin th.mu.readers /\ th.mu.writer # t
          /\ th.mu.writer = t => th.pc[t] = "wlocked" /\ th.wh[t].valid
          /\ th.pc[t] = "done" =>
                th.err[t] = NoErr /\ th.b[t] = IndexPayload(table)
    /\ th.mu.writer # Nil => th.mu.readers = {}
    /\ \E t \in Threads : ~Waiting(t)
    /\ r.index.handle.valid =>
          /\ r.index.handle.off = IndexOffset(table)
          /\ r.index.handle.b = IndexPayload(table)

\* Both threads missed and read the block; one has installed its handle
\* and returned, the other holds the write lock to install its own, after
\* an eviction.
C18_Witness ==
    /\ th.pc[1] = "done" /\ th.pc[2] = "wlocked"
    /\ th.wh[1].valid /\ r.index.handle.valid
    /\ out.evictions > 0

\* A thread waits for the write lock while another reads under the read
\* lock.
C18_WitnessWaiting ==
    th.pc[1] = "publish" /\ th.pc[2] = "got" /\ th.b[2] # <<>>

\* Both threads missed in cache.Get and read the file; each is about to
\* call cache.Set.
C18_WitnessBothRead ==
    /\ th.pc[1] = "read" /\ th.pc[2] = "read"
    /\ r.index.bh.Offset \notin DOMAIN cache

\* A thread returned the block without publishing a weak handle: the slot
\* has none.
C18_WitnessNoWeak ==
    th.pc[1] = "done" /\ th.b[1] # <<>> /\ ~th.wh[1].valid
    /\ ~r.index.handle.valid

\* The iterator stands on data block j of the table after a loadBlock that
\* succeeded.
LoadedBlock(j) ==
    /\ it.reader /\ it.err = NoErr
    /\ biValid(it.index) /\ it.index.offset + 1 = j
    /\ table[j].fault = NoFault
    /\ it.data.data = MapData(table[j].keys)
    /\ it.dataBH = DataBH(table, j)

\* C19: after a successful loadBlock, blockLower is nil exactly when there
\* is no lower bound or the block's first key is strictly greater than it,
\* and blockUpper is nil exactly when there is no upper bound or the
\* block's separator is strictly less than it; a bound that equals the
\* first key or the separator stays active.
C19_BlockBoundsTrimmedOnlyWhenStrict ==
    \A j \in 1..Len(table) :
        LoadedBlock(j) =>
            /\ it.blockLower = Nil <=>
                  (it.lower = Nil \/ Compare(table[j].keys[1], it.lower) > 0)
            /\ it.blockLower \in {Nil, it.lower}
            /\ it.blockUpper = Nil <=>
                  (it.upper = Nil \/ Compare(table[j].sep, it.upper) < 0)
            /\ it.blockUpper \in {Nil, it.upper}

\* A block whose first key equals the lower bound, and a block whose
\* separator equals the upper bound: the bound stays.
C19_Witness ==
    /\ LoadedBlock(1) /\ it.lower = table[1].keys[1] /\ it.blockLower = it.lower
    /\ it.upper = Nil /\ it.blockUpper = Nil
C19_WitnessUpper ==
    /\ LoadedBlock(2) /\ it.upper = table[2].sep /\ it.blockUpper = it.upper
    /\ it.lower # Nil /\ it.blockLower = Nil

\* C20: in every state iterator operations reach, also after a loadBlock
\* that failed on a corrupt index entry or on a block read error, dataBH is
\* the handle of the data block the data cursor holds.
C20_DataBHIsLoadedBlock ==
    it.data.data # <<>> =>
        \E j \in 1..Len(table) :
            /\ it.data.data = MapData(table[j].keys)
            /\ it.dataBH = DataBH(table, j)


\* ------------------------------------------------ close hook and handles
\* C21: Iterator.Close calls the close hook, when one is set, exactly once.
\* When the hook returns an error, Close returns that error and the
\* iterator is as before: its fields and the data cursor's cache handle are
\* kept and it is not put into the pool.  When no hook is set or the hook
\* returns nil, Close releases the data cursor's handle, zeroes the
\* iterator, puts it into the pool and returns the error the iterator had
\* stored.
C21_CloseHookErrorChangesNothing ==
    [][/\ op'.name \in {"Iterator.Close", "Iterator.Close, hook error"} =>
             out'.hooks = IF it.closeHook THEN 1 ELSE 0
       /\ op'.name = "Iterator.Close, hook error" =>
             /\ it.closeHook
             /\ out'.err = ErrHook
             /\ it' = it
             /\ handles' = handles
             /\ ~out'.pooled
       /\ op'.name = "Iterator.Close" =>
             /\ out'.err = it.err
             /\ handles' = handles (-) SetToBag(it.data.cacheHandle)
             /\ it' = ZeroIterator
             /\ out'.pooled]_vars

\* The hook failed on an iterator that is on a key and holds its block; the
\* hook succeeded on an iterator with a stored load error.
C21_Witness ==
    /\ op.name = "Iterator.Close, hook error" /\ out.hooks = 1
    /\ Valid(it) /\ it.data.cacheHandle # {} /\ handles # EmptyBag
C21_WitnessHookOk ==
    /\ op.name = "Iterator.Close" /\ out.hooks = 1 /\ out.pooled
    /\ out.err \in {ErrChecksum, ErrCorruptIndex} /\ handles = EmptyBag

\* The data block at file offset off.
BlockAt(off) == {j \in 1..Len(table) : DataOffset(table, j) = off}

\* C23: the strong handles an iterator has taken and not released are at
\* most one, the one on its data cursor, and it is the handle of the block
\* the cursor iterates; after a Close without close-hook error none is
\* left.  This holds after every positioning operation, also one that ended
\* in a load error, and after get.
C23_AtMostOneStrongHandle ==
    /\ BagCardinality(handles) <= 1
    /\ handles = SetToBag(it.data.cacheHandle)
    /\ \A off \in it.data.cacheHandle :
          \E j \in BlockAt(off) : it.data.data = MapData(table[j].keys)
    /\ op.name = "Iterator.Close" => handles = EmptyBag

\* A second block was loaded over the first; an operation ended in a load
\* error while the cursor holds the block loaded before.
C23_Witness ==
    /\ it.reader /\ it.err = NoErr /\ Valid(it)
    /\ it.data.cacheHandle = {DataOffset(table, 2)}
    /\ DataOffset(table, 1) \in DOMAIN cache
C23_WitnessLoadError ==
    /\ it.reader /\ it.err # NoErr /\ BagCardinality(handles) = 1


\* ------------------------------------------------------- empty blocks
\* The tables with one data block written without records: the block has its
\* index entry and separator, loads, and holds no entry.
EmptiedTables ==
    { [t EXCEPT ![j].keys = <<>>] : <<t, j>> \in
        { x \in Tables \X (1..MaxBlocks) : Len(x[1]) >= 2 /\ x[2] <= Len(x[1]) } }

InitEmpty == \E t \in EmptiedTables : InitIter(t, Nil, Nil)

SpecEmpty == InitEmpty /\ [][IterStep]_vars

\* The iterator is on the last (first) key of data block j.
OnLastKeyOf(j) ==
    /\ it.err = NoErr /\ Valid(it)
    /\ biValid(it.index) /\ it.index.offset + 1 = j
    /\ it.data.data = MapData(table[j].keys)
    /\ it.data.offset = Len(table[j].keys) - 1
OnFirstKeyOf(j) ==
    /\ it.err = NoErr /\ Valid(it)
    /\ biValid(it.index) /\ it.index.offset + 1 = j
    /\ it.data.data = MapData(table[j].keys)
    /\ it.data.offset = 0

\* C22: a Next from the last key of a block whose next block is empty
\* returns the first key of the following non-empty block, and (nil, nil)
\* only when no stored key follows; a Prev from the first key of a block
\* whose previous block is empty returns the last key of the preceding
\* non-empty block, and (nil, nil) only when no stored key precedes.
C22_EmptyBlockSkipped ==
    [][\A j \in 1..Len(table) :
          /\ (op'.name = "Next" /\ OnLastKeyOf(j) /\ j < Len(table)
                /\ table[j + 1].keys = <<>>)
                => ret' = LeastGE(table, biKey(it.data) + 1)
          /\ (op'.name = "Prev" /\ OnFirstKeyOf(j) /\ j > 1
                /\ table[j - 1].keys = <<>>)
                => ret' = GreatestLT(table, biKey(it.data))]_vars


\* ------------------------------------------- a filter block that fails
\* Every small table with a filter block (over no prefix, or over all)
\* whose bytes fail to load (bad CRC, or a failing read), a Reader with the
\* filter policy and an iterator without bounds on it.
InitFilterFault ==
    \E t \in SmallTables, ps \in {{}, Prefixes}, f \in {FaultCRC, FaultRead} :
        /\ table = t
        /\ file = [FileOf(t, TRUE, ps, <<>>, FALSE, NoFault)
                       EXCEPT ![FilterOffset(t)] = Damaged(@, f)]
        /\ \E w1 \in {NewReader(ZeroWorld, Footer(t, TRUE, ps, <<>>, FALSE), TRUE)} :
            \E w \in {IteratorInit(w1, Nil, Nil)} :
                /\ it = w.it
                /\ cache = w.cache
                /\ reads = w.reads
                /\ r = w.r
        /\ op = Call("NewIter", Nil, Nil)
        /\ ret = Nil
        /\ scan = NoScan
        /\ out = NoOut
        /\ closes = 0
        /\ handles = EmptyBag
        /\ ci = ZeroCompaction
        /\ th = NoThreads

SpecFilterFault == InitFilterFault /\ [][IterStep]_vars

\* The error reading the filter block ends in.
FilterError ==
    IF file[r.filter.bh.Offset].readErr THEN ErrIO ELSE ErrChecksum

\* C24: when reading the filter block fails inside SeekPrefixGE, the call
\* returns (nil, nil), Valid() is false afterwards, Error() returns the read
\* error, and the error is stored so that later operations return on it.
C24_FilterReadErrorStored ==
    [][(op'.name = "SeekPrefixGE" /\ it.err = NoErr /\ r.tableFilter)
          => /\ ret' = Nil
             /\ ~Valid(it')
             /\ Error(it') = FilterError
             /\ it'.err = FilterError]_vars


\* ------------------------------------------------------ Valid and Key
\* C25: whenever the last positioning operation returned (nil, nil),
\* Valid() is false, also when the iterator was on a key before the call;
\* and whenever Valid() is true, the last positioning operation returned a
\* key and Key() is that key.
C25_NilReturnLeavesInvalid ==
    /\ (op.name \in PositioningOps /\ ret = Nil) => ~Valid(it)
    /\ Valid(it) => (op.name \in PositioningOps /\ ret = biKey(it.data))


\* ---------------------------------------------------------- SetBounds
\* Iterator.SetBounds(lower, upper) with no bounds or with any pair of
\* bounds over the key space.
CallSetBounds ==
    \E b \in {<<Nil, Nil>>} \cup BoundPairs(MaxSmallKey + 1) :
        \E w \in {EndScan(SetBounds(World, b[1], b[2]))} :
            Commit(w, Call("SetBounds", Nil, Nil))

\* Every small table under every pair of bounds.
InitSetBounds ==
    \E t \in SmallTables, b \in BoundPairs(MaxSmallKey + 1) :
        InitIter(t, b[1], b[2])

SpecSetBounds == InitSetBounds /\ [][IterStep \/ CallSetBounds]_vars

\* C26: at every bound check after a SetBounds the per-block bounds are nil
\* or the current bounds, so that positioning honours the new bounds: after
\* SetBounds(nil, nil) First returns the first key of the table, and a Next
\* from a key returns the next key of the table, also when the previous
\* upper bound excluded it.
C26_BlockBoundsFollowSetBounds ==
    [][op'.name \in PositioningOps =>
          /\ it'.blockLower \in {Nil, it.lower}
          /\ it'.blockUpper \in {Nil, it.upper}
          /\ (Unbounded /\ it.err = NoErr /\ op'.name = "First")
                => ret' = AllKeys(table)[1]
          /\ (Unbounded /\ it.err = NoErr /\ op'.name = "Next" /\ Valid(it))
                => ret' = LeastGE(table, biKey(it.data) + 1)]_vars


\* ---------------------------------------------------- direction changes
\* A forward scan First(); Next()* has just run off the end of the table,
\* and a backward scan Last(); Prev()* off its front.
FwdExhausted ==
    /\ op.name = "Next" /\ ret = Nil /\ it.err = NoErr
    /\ scan.dir = "fwd" /\ scan.done /\ scan.keys = AllKeys(table)
BwdExhausted ==
    /\ op.name = "Prev" /\ ret = Nil /\ it.err = NoErr
    /\ scan.dir = "bwd" /\ scan.done /\ scan.keys = Reverse(AllKeys(table))

\* C27: without bounds, a Prev after a Next or Prev that returned key k
\* returns the greatest stored key below k, and a Next after a Next or Prev
\* that returned k the least stored key above k, (nil, nil) when there is
\* none; the Prev after a forward scan has run off the end returns the last
\* key, and the Next after a backward scan has run off the front the first
\* key.  So Next(); Prev() returns to the key it started from, and the
\* Prev() calls after a forward scan return every key once, in descending
\* order.
C27_DirectionChangesFollowTableOrder ==
    [][/\ (op'.name = "Prev" /\ op.name \in {"Next", "Prev"} /\ ret # Nil)
             => ret' = GreatestLT(table, ret)
       /\ (op'.name = "Next" /\ op.name \in {"Next", "Prev"} /\ ret # Nil)
             => ret' = LeastGE(table, ret + 1)
       /\ (op'.name = "Prev" /\ FwdExhausted)
             => ret' = AllKeys(table)[Len(AllKeys(table))]
       /\ (op'.name = "Next" /\ BwdExhausted)
             => ret' = AllKeys(table)[1]]_vars

====
